---- MODULE Spec2Model ----
(***************************************************************************)
(* A model of the detection-and-resolution engine of orchideous: the       *)
(* incremental build planner (compileSources / needsRecompile), the        *)
(* include resolver (collectExternalIncludes) and the external-include     *)
(* part of the flag assembler (assembleFlags).                             *)
(*                                                                         *)
(* Words.  Every file path and every command-line argument is a pair of    *)
(* strings.  A path is <<stem, ext>> ("main.cpp" is <<"main", ".cpp">>),   *)
(* so that strings.TrimSuffix(src, filepath.Ext(src)) + ".o" is the        *)
(* replacement of the second component.  An argument is <<text, operand>>  *)
(* ("-Iinclude" is <<"-I", "include">>, "-lm" is <<"-lm", "">>).  The      *)
(* characters of a .d file that are not part of a file name are the pairs  *)
(* Colon, Space, NL and BS below; a file name inside a .d file is one      *)
(* symbol.                                                                 *)
(*                                                                         *)
(* Time.  Modification times are 1..MaxTime, 0 stands for "no such file"   *)
(* (os.Stat returns an error).  The clock `now` only moves forward; a file *)
(* written by a tool gets the modification time `now`, so two files        *)
(* written within one clock tick have equal modification times.            *)
(***************************************************************************)
EXTENDS Integers, Sequences, FiniteSets, TLC

\* Bounds of the model.
MaxSrcs == 2
MaxTime == 2
MaxDepLen == 4
MaxDirectives == 2
MaxIncludes == 2
MaxFlagLen == 4
MaxFiles == 3

\* ------------------------------------------------------------------------
\* Names
\* ------------------------------------------------------------------------
Stems == <<"main", "a", "b", "c">>

Colon == <<":", "">>
Space == <<" ", "">>
NL == <<"\n", "">>
BS == <<"\\", "">>

Hdr == <<"util", ".h">>
Exe == <<"prog", "">>

SrcPath(i) == <<Stems[i], ".cpp">>

\* obj := strings.TrimSuffix(src, filepath.Ext(src)) + ".o"
ObjPath(src) == <<src[1], ".o">>

\* depFile := strings.TrimSuffix(obj, ".o") + ".d"
DepPath(obj) == IF obj[2] = ".o" THEN <<obj[1], ".d">> ELSE <<obj[1], ".d?">>

AllSrcs == {SrcPath(i) : i \in 1..MaxSrcs}
AllObjs == {ObjPath(s) : s \in AllSrcs}
AllDeps == {DepPath(o) : o \in AllObjs}
Files == AllSrcs \cup AllObjs \cup {Hdr, Exe}

NoDep == [exists |-> FALSE, data |-> <<>>]

\* The source list handed to compileSources: main source first, then the
\* dependency sources.
SrcList(n) == [i \in 1..n |-> SrcPath(i)]

\* BuildFlags as assembled for two different option sets.
FlagsRelease ==
    [Compiler |-> "g++", Std |-> "c++20", CFlags |-> <<"-O2">>,
     LDFlags |-> <<"-lm">>, Defines |-> <<>>, IncPaths |-> <<"include">>]
FlagsDebug ==
    [Compiler |-> "g++", Std |-> "c++20", CFlags |-> <<"-O0", "-g">>,
     LDFlags |-> <<"-fsanitize=address", "-lm">>, Defines |-> <<>>,
     IncPaths |-> <<"include">>]
NoFlags ==
    [Compiler |-> "", Std |-> "", CFlags |-> <<>>, LDFlags |-> <<>>,
     Defines |-> <<>>, IncPaths |-> <<>>]
FlagSets == {FlagsRelease, FlagsDebug}

VARIABLES
    srcDir,       \* the text of each file of the project directory
    detection,    \* what main-source detection and the build entry found
    srcs,         \* the source list of the project (main first)
    includes,     \* includes[s]: TRUE when source s includes Hdr
    now,          \* the clock
    fs,           \* fs[path]: modification time, 0 when the file is absent
    dfiles,       \* dfiles[path]: the .d files, [exists, data]
    pc,           \* position of the build run
    flags,        \* compileSources: parameter flags
    idx,          \* compileSources: position of the range loop over srcs
    needLink,     \* compileSources: needLink
    objFiles,     \* compileSources: objFiles
    commandsRun,  \* the commands executed by this run, in order
    err,          \* the error returned by the run ("" is nil)
    upToDate,     \* the run printed "up to date"
    run0,         \* history: the file system when the run started
    unchanged,    \* history: the last run succeeded and no file changed since
    nr,           \* the last call of needsRecompile: [called, result]
    tree,         \* tree[k]: the #include directives of scanned file k
    localFiles,   \* the headers that exist under a local include directory
    win64,        \* the project targets win64
    proj,         \* the detected Project (its Includes)
    env,          \* the machine: pkg-config, the package manager, the paths
    asm,          \* the flags assembled for the external includes
    mf,           \* the calls of mergeFlags: its arguments and results
    opts,         \* the BuildOptions of the build
    feat,         \* the feature fields of the detected Project
    rec,          \* the end of a build: its result and what recommendPackage did
    prev,         \* history: the BuildFlags of an earlier run of assembleFlags
    cmd,          \* the flags doBuildWithDirOverrides hands to compileSources
    local,        \* local[f]: the quoted #include names of each file that exists
    res,          \* resolveCommonDeps: MainSource, DepSources and its position
    pcf,          \* cachedPCFiles, and the history of the queries and lookups
    runs          \* the files of a project and the last command run on them

buildVars == <<srcs, includes, now, fs, dfiles, pc, flags, idx, needLink,
               objFiles, commandsRun, err, upToDate, run0, unchanged>>

\* the variables the build run leaves alone
scanVars == <<tree, localFiles, win64, proj>>
flagVars == <<env, asm, opts, feat>>
mergeVars == <<mf>>
mainVars == <<srcDir, detection>>
toolVars == <<rec, prev, cmd, local, res, pcf, runs>>
otherVars == <<nr, scanVars, flagVars, mergeVars, mainVars, toolVars>>

vars == <<buildVars, otherVars>>

\* ------------------------------------------------------------------------
\* String functions used by needsRecompile
\* ------------------------------------------------------------------------
IsSpace(c) == c \in {Space, NL}

\* The first position of c in s, 0 when there is none (strings.Index + 1).
IndexOf(s, c) ==
    IF \E k \in 1..Len(s) : s[k] = c
    THEN CHOOSE k \in 1..Len(s) : s[k] = c /\ \A j \in 1..(k - 1) : s[j] # c
    ELSE 0

\* strings.ReplaceAll(s, "\\\n", " ")
RECURSIVE ReplaceContinuations(_)
ReplaceContinuations(s) ==
    IF Len(s) = 0 THEN <<>>
    ELSE IF Len(s) >= 2 /\ s[1] = BS /\ s[2] = NL
         THEN <<Space>> \o ReplaceContinuations(SubSeq(s, 3, Len(s)))
         ELSE <<s[1]>> \o ReplaceContinuations(Tail(s))

\* strings.SplitSeq(s, "\n")
RECURSIVE SplitLines(_)
SplitLines(s) ==
    LET k == IndexOf(s, NL)
    IN  IF k = 0 THEN <<s>>
        ELSE <<SubSeq(s, 1, k - 1)>> \o SplitLines(SubSeq(s, k + 1, Len(s)))

\* strings.Cut(line, ":")
Cut(line) ==
    LET k == IndexOf(line, Colon)
    IN  [ok |-> k > 0,
         after |-> IF k > 0 THEN SubSeq(line, k + 1, Len(line)) ELSE <<>>]

\* strings.FieldsSeq(s): the maximal runs of non-space characters
RECURSIVE Fields(_)
Fields(s) ==
    IF Len(s) = 0 THEN <<>>
    ELSE IF IsSpace(s[1]) THEN Fields(Tail(s))
    ELSE LET stop == IF \E k \in 1..Len(s) : IsSpace(s[k])
                     THEN CHOOSE k \in 1..Len(s) :
                              IsSpace(s[k]) /\ \A j \in 1..(k - 1) : ~IsSpace(s[j])
                     ELSE Len(s) + 1
         IN  <<SubSeq(s, 1, stop - 1)>> \o Fields(SubSeq(s, stop, Len(s)))

\* os.Stat(path).ModTime(), 0 when os.Stat fails.
Stat(FS, path) == IF path \in DOMAIN FS THEN FS[path] ELSE 0

\* os.Stat of a word of a .d file: a word of several symbols (a name glued to
\* a colon or to a stray backslash) is the name of no file of the model.
StatField(FS, field) == IF Len(field) = 1 THEN Stat(FS, field[1]) ELSE 0

\* needsRecompile with "not newer" taken for "older": equal modification
\* times would trigger a recompile.
NeedsRecompileNotOlder(src, obj, FS, DF) ==
    \/ Stat(FS, src) = 0
    \/ Stat(FS, obj) = 0
    \/ Stat(FS, src) >= Stat(FS, obj)

\* needsRecompile that trusts the source check alone (no .d file parsing).
NeedsRecompileNoDeps(src, obj, FS, DF) ==
    \/ Stat(FS, src) = 0
    \/ Stat(FS, obj) = 0
    \/ Stat(FS, src) > Stat(FS, obj)

NeedsRecompile(src, obj, FS, DF) ==
    IF Stat(FS, src) = 0 THEN TRUE
    ELSE IF Stat(FS, obj) = 0 THEN TRUE
    ELSE IF Stat(FS, src) > Stat(FS, obj) THEN TRUE
    ELSE LET dep == DF[DepPath(obj)]
         IN  IF ~dep.exists THEN FALSE
             ELSE LET lines == SplitLines(ReplaceContinuations(dep.data))
                  IN  \E k \in 1..Len(lines) :
                        /\ Cut(lines[k]).ok
                        /\ LET deps == Fields(Cut(lines[k]).after)
                           IN  \E d \in 1..Len(deps) :
                                 /\ StatField(FS, deps[d]) # 0
                                 /\ StatField(FS, deps[d]) > Stat(FS, obj)


\* ------------------------------------------------------------------------
\* The compiler and the linker, as the planner calls them
\* ------------------------------------------------------------------------
Arg(text) == <<text, "">>
Args(seq) == [k \in 1..Len(seq) |-> Arg(seq[k])]
IncArgs(paths) == [k \in 1..Len(paths) |-> <<"-I", paths[k]>>]

\* buildCompileArgs: the arguments of the single-shot compile+link
BuildCompileArgs(f, sources, output) ==
    <<(<<"-std=", f.Std>>)>> \o Args(f.CFlags) \o Args(f.Defines)
        \o IncArgs(f.IncPaths) \o <<Arg("-o"), output>> \o sources
        \o Args(f.LDFlags)

\* the arguments of the compile of one source to its object
ObjectCompileArgs(f, src, obj) ==
    <<(<<"-std=", f.Std>>), Arg("-MMD")>> \o Args(f.CFlags) \o Args(f.Defines)
        \o IncArgs(f.IncPaths) \o <<Arg("-c"), Arg("-o"), obj, src>>

\* link arguments with the link flags ahead of the objects
LinkArgsFlagsFirst(f, objs, output) ==
    <<Arg("-o"), output>> \o Args(f.LDFlags) \o objs

\* the arguments of the link
LinkArgs(f, objs, output) ==
    <<Arg("-o"), output>> \o objs \o Args(f.LDFlags)

Command(f, kind, args) == [prog |-> f.Compiler, kind |-> kind, args |-> args]

\* The .d file the compiler writes next to the object under -MMD:
\* "obj: src \<newline> header<newline>".
DepText(src, withHdr) ==
    <<ObjPath(src), Colon, Space, src>>
        \o (IF withHdr THEN <<Space, BS, NL, Space, Hdr>> ELSE <<>>)
        \o <<NL>>

\* fileExists
FileExists(FS, path) == Stat(FS, path) # 0

\* ------------------------------------------------------------------------
\* compileSources / compileSourcesCaptured
\* ------------------------------------------------------------------------
StaleSet(FS, DF, list) ==
    {i \in 1..Len(list) : NeedsRecompile(list[i], ObjPath(list[i]), FS, DF)}

\* the single-source test that is never true
SingleSourceNever(list) == FALSE

\* "if len(srcs) == 1"
SingleSource(list) == Len(list) = 1

NoProject == [detected |-> FALSE, cpp |-> <<>>, Includes |-> <<>>]

\* nothing is scanned in the runs of the build planner
ScanIdle ==
    /\ tree = <<>>
    /\ localFiles = {}
    /\ win64 = FALSE
    /\ proj = NoProject

NoCall == [called |-> FALSE, result |-> FALSE]

NoRun == [fs |-> [f \in Files |-> 0], afterOk |-> FALSE]

\* the external headers the flags are assembled for
FlagHeaders == {"SDL2/SDL.h", "GL/glew.h", "glm/glm.hpp", "zlib.h"}

\* the environment variables assembleFlags could read
EnvVars == {"CXXFLAGS", "CFLAGS", "LDFLAGS"}

NoEnv ==
    [hasPkg |-> FALSE, installed |-> {}, goos |-> "linux", paths |-> {},
     pm |-> [h \in FlagHeaders |-> "none"], environ |-> [v \in EnvVars |-> <<>>]]

NoOptions ==
    [Debug |-> FALSE, Opt |-> FALSE, Strict |-> FALSE, Sloppy |-> FALSE,
     Small |-> FALSE, Tiny |-> FALSE, Clang |-> FALSE, Zap |-> FALSE,
     Win64 |-> FALSE, NoSanitizers |-> FALSE, ProfileGenerate |-> FALSE,
     ProfileUse |-> FALSE]

NoFeatures ==
    [IsC |-> FALSE, HasOpenMP |-> FALSE, HasBoost |-> FALSE, BoostLibs |-> <<>>,
     HasQt6 |-> FALSE, HasMathLib |-> FALSE, HasFS |-> FALSE,
     HasThreads |-> FALSE, HasGLFWVulkan |-> FALSE, HasDlopen |-> FALSE]

\* The flag lists under construction are a record [c, l] (cflags, ldflags).
NoExtra == [c |-> <<>>, l |-> <<>>]

\* asm.own: the flags in place before the external includes are resolved
NoAssembly ==
    [done |-> FALSE, Compiler |-> <<>>, Std |-> "", CFlags |-> <<>>,
     LDFlags |-> <<>>, Defines |-> <<>>, IncPaths |-> <<>>, own |-> NoExtra,
     asked |-> <<>>, resolved |-> {}]

\* no flags are assembled in the runs of the build planner and of the scan
NoMerge ==
    [calls |-> 0, flagString |-> <<>>, c0 |-> <<>>, l0 |-> <<>>, c |-> <<>>,
     l |-> <<>>, c1 |-> <<>>, l1 |-> <<>>]

FlagsIdle ==
    /\ env = NoEnv
    /\ asm = NoAssembly
    /\ opts = NoOptions
    /\ feat = NoFeatures

MergeIdle == mf = NoMerge

\* the empty string that stands for no main source
NoSource == [dir |-> "", stem |-> "", ext |-> ""]

NoFound ==
    [phase |-> "idle", testSrcs |-> <<>>, TestSources |-> <<>>,
     MainSource |-> NoSource, result |-> ""]

\* no directory is searched for a main source
MainIdle == srcDir = <<>> /\ detection = NoFound

\* no build has ended yet
NoRecommend ==
    [platform |-> "generic", tool |-> FALSE, sys |-> {}, out |-> <<>>,
     done |-> FALSE, failed |-> FALSE, exit |-> ""]

\* doBuildWithDirOverrides has not reached compileSources
NoCommand == [done |-> FALSE, InstallPrefix |-> "", Defines |-> <<>>]

\* detectProject has not looked for the dependency sources
NoResolve ==
    [pc |-> "start", MainSource |-> NoSource, DepSources |-> <<>>, rounds |-> 0]

\* the start of a run: "cachedPCFiles = make(map[string][]string)"
NoLookups ==
    [platform |-> "generic", cachedPCFiles |-> <<>>, queries |-> <<>>,
     lookups |-> <<>>]

ToolIdle ==
    /\ rec = NoRecommend
    /\ prev = NoAssembly
    /\ cmd = NoCommand
    /\ local = <<>>
    /\ res = NoResolve
    /\ pcf = NoLookups
    /\ runs = <<>>

\* no build runs while the flags are assembled
BuildIdle ==
    /\ srcs = SrcList(1)
    /\ includes = [i \in 1..1 |-> FALSE]
    /\ now = 1
    /\ fs = [f \in Files |-> 0]
    /\ dfiles = [p \in AllDeps |-> NoDep]
    /\ pc = "idle"
    /\ flags = NoFlags
    /\ idx = 1
    /\ needLink = FALSE
    /\ objFiles = <<>>
    /\ commandsRun = <<>>
    /\ err = ""
    /\ upToDate = FALSE
    /\ run0 = NoRun
    /\ unchanged = FALSE

BuildStartWith(choices) ==
    /\ pc = "idle"
    /\ \E f \in choices : flags' = f
    /\ pc' = IF SingleSource(srcs) THEN "single" ELSE "loop"
    /\ idx' = 1
    /\ needLink' = FALSE
    /\ objFiles' = <<>>
    /\ commandsRun' = <<>>
    /\ err' = ""
    /\ upToDate' = FALSE
    /\ run0' = [fs |-> fs, afterOk |-> unchanged]
    /\ UNCHANGED <<srcs, includes, now, fs, dfiles, unchanged>>
    /\ UNCHANGED otherVars

BuildStart == BuildStartWith({FlagsRelease})

\* A tool that fails may leave its output file as it was or remove it.
FailedOutput(FS, path) == {FS, [FS EXCEPT ![path] = 0]}

CompileSingle ==
    /\ pc = "single"
    /\ commandsRun' = Append(commandsRun,
           Command(flags, "compile+link", BuildCompileArgs(flags, srcs, Exe)))
    /\ \E ok \in BOOLEAN :
         IF ok
         THEN /\ fs' = [fs EXCEPT ![Exe] = now]
              /\ err' = ""
         ELSE /\ fs' \in FailedOutput(fs, Exe)
              /\ err' = "compilation failed"
    /\ pc' = "done"
    /\ UNCHANGED <<srcs, includes, now, dfiles, flags, idx, needLink,
                   objFiles, upToDate, run0, unchanged>>
    /\ UNCHANGED otherVars

\* a loop that is taken for finished once the first source is dealt with
LoopDoneEarly(i, list) == i > 1

\* "for _, src := range srcs": the loop is over
LoopDone(i, list) == i > Len(list)

\* a compile error that is recorded while the loop goes on
AfterCompileErrorContinue(i) == [pc |-> "loop", idx |-> i + 1]

\* "return fmt.Errorf("compiling %s: %w", src, err)"
AfterCompileError(i) == [pc |-> "done", idx |-> i]

LoopIteration ==
    /\ pc = "loop"
    /\ idx <= Len(srcs)
    /\ ~LoopDone(idx, srcs)
    /\ LET src == srcs[idx]
           obj == ObjPath(src)
       IN  /\ objFiles' = Append(objFiles, obj)
           /\ IF ~NeedsRecompile(src, obj, fs, dfiles)
              THEN /\ idx' = idx + 1
                   /\ UNCHANGED <<fs, dfiles, pc, needLink, commandsRun, err>>
              ELSE /\ needLink' = TRUE
                   /\ commandsRun' = Append(commandsRun,
                          Command(flags, "compile", ObjectCompileArgs(flags, src, obj)))
                   /\ \E ok \in BOOLEAN :
                        IF ok
                        THEN /\ fs' = [fs EXCEPT ![obj] = now]
                             /\ dfiles' = [dfiles EXCEPT ![DepPath(obj)] =
                                    [exists |-> TRUE, data |-> DepText(src, includes[idx])]]
                             /\ idx' = idx + 1
                             /\ UNCHANGED <<pc, err>>
                        ELSE /\ fs' \in FailedOutput(fs, obj)
                             /\ err' = "compiling"
                             /\ pc' = AfterCompileError(idx).pc
                             /\ idx' = AfterCompileError(idx).idx
                             /\ UNCHANGED dfiles
    /\ UNCHANGED <<srcs, includes, now, flags, upToDate, run0, unchanged>>
    /\ UNCHANGED otherVars

\* the link decision without the check for a missing binary
LinkNeededNoExeCheck(nl, FS, output) == nl

\* the link decision that always links
LinkNeededAlways(nl, FS, output) == TRUE

\* "if !fileExists(output) { needLink = true }"
LinkNeeded(nl, FS, output) == nl \/ ~FileExists(FS, output)

LinkStep ==
    /\ pc = "loop"
    /\ LoopDone(idx, srcs)
    /\ needLink' = LinkNeeded(needLink, fs, Exe)
    /\ IF ~needLink'
       THEN /\ upToDate' = TRUE
            /\ UNCHANGED <<fs, commandsRun, err>>
       ELSE /\ commandsRun' = Append(commandsRun,
                   Command(flags, "link", LinkArgs(flags, objFiles, Exe)))
            /\ \E ok \in BOOLEAN :
                 IF ok
                 THEN /\ fs' = [fs EXCEPT ![Exe] = now]
                      /\ err' = ""
                 ELSE /\ fs' \in FailedOutput(fs, Exe)
                      /\ err' = "linking failed"
            /\ UNCHANGED upToDate
    /\ pc' = "done"
    /\ UNCHANGED <<srcs, includes, now, dfiles, flags, idx, objFiles, run0,
                   unchanged>>
    /\ UNCHANGED otherVars

\* The run returns to its caller; the locals of compileSources are gone.
Return ==
    /\ pc = "done"
    /\ pc' = "idle"
    /\ unchanged' = (err = "")
    /\ flags' = NoFlags
    /\ idx' = 1
    /\ needLink' = FALSE
    /\ objFiles' = <<>>
    /\ commandsRun' = <<>>
    /\ err' = ""
    /\ upToDate' = FALSE
    /\ run0' = NoRun
    /\ UNCHANGED <<srcs, includes, now, fs, dfiles>>
    /\ UNCHANGED otherVars

\* ------------------------------------------------------------------------
\* The world between two runs
\* ------------------------------------------------------------------------
Tick ==
    /\ now < MaxTime
    /\ now' = now + 1
    /\ UNCHANGED <<srcs, includes, fs, dfiles, pc, flags, idx, needLink,
                   objFiles, commandsRun, err, upToDate, run0, unchanged>>
    /\ UNCHANGED otherVars

\* The user saves a source or the header.
Touch ==
    /\ pc = "idle"
    /\ \E f \in {srcs[i] : i \in 1..Len(srcs)} \cup {Hdr} :
         fs' = [fs EXCEPT ![f] = now]
    /\ unchanged' = FALSE
    /\ UNCHANGED <<srcs, includes, now, dfiles, pc, flags, idx, needLink,
                   objFiles, commandsRun, err, upToDate, run0>>
    /\ UNCHANGED otherVars

\* doClean: removes *.o, *.d and the executable
DoClean ==
    /\ pc = "idle"
    /\ fs' = [f \in Files |-> IF f \in AllObjs \cup {Exe} THEN 0 ELSE fs[f]]
    /\ dfiles' = [d \in AllDeps |-> NoDep]
    /\ unchanged' = FALSE
    /\ UNCHANGED <<srcs, includes, now, pc, flags, idx, needLink, objFiles,
                   commandsRun, err, upToDate, run0>>
    /\ UNCHANGED otherVars

\* doFastClean: removes *.o and the executable
DoFastClean ==
    /\ pc = "idle"
    /\ fs' = [f \in Files |-> IF f \in AllObjs \cup {Exe} THEN 0 ELSE fs[f]]
    /\ unchanged' = FALSE
    /\ UNCHANGED <<srcs, includes, now, dfiles, pc, flags, idx, needLink,
                   objFiles, commandsRun, err, upToDate, run0>>
    /\ UNCHANGED otherVars

Init ==
    /\ \E n \in 1..MaxSrcs :
         /\ srcs = SrcList(n)
         /\ includes \in [1..n -> BOOLEAN]
         /\ fs = [f \in Files |->
                    IF f = Hdr \/ f \in {SrcPath(i) : i \in 1..n} THEN 1 ELSE 0]
    /\ now = 1
    /\ dfiles = [d \in AllDeps |-> NoDep]
    /\ pc = "idle"
    /\ flags = NoFlags
    /\ idx = 1
    /\ needLink = FALSE
    /\ objFiles = <<>>
    /\ commandsRun = <<>>
    /\ err = ""
    /\ upToDate = FALSE
    /\ run0 = NoRun
    /\ unchanged = FALSE
    /\ nr = NoCall
    /\ ScanIdle
    /\ FlagsIdle
    /\ MergeIdle
    /\ MainIdle
    /\ ToolIdle

Next ==
    \/ BuildStart
    \/ CompileSingle
    \/ LoopIteration
    \/ LinkStep
    \/ Return
    \/ Tick
    \/ Touch
    \/ DoClean
    \/ DoFastClean

Spec == Init /\ [][Next]_vars

TypeOK ==
    /\ pc \in {"idle", "single", "loop", "done"}
    /\ now \in 1..MaxTime
    /\ \A f \in Files : fs[f] \in 0..now


\* ------------------------------------------------------------------------
\* What a run did, read from its command log
\* ------------------------------------------------------------------------
N == Len(srcs)
Obj(i) == <<srcs[i][1], ".o">>
CmdKinds == [p \in 1..Len(commandsRun) |-> commandsRun[p].kind]
CompilePositions == {p \in 1..Len(commandsRun) : commandsRun[p].kind = "compile"}
LinkPositions == {p \in 1..Len(commandsRun) : commandsRun[p].kind = "link"}
\* the source a compile command names: its last argument
CmdSource(c) == c.args[Len(c.args)]
SrcIndex(path) == CHOOSE i \in 1..N : srcs[i] = path
CompiledNow == {SrcIndex(CmdSource(commandsRun[p])) : p \in CompilePositions}
HasArg(c, a) == \E k \in 1..Len(c.args) : c.args[k] = a

\* C1: after a successful multi-source build, a further run with no file
\* changed in between runs no compiler and no linker, writes nothing and
\* reports "up to date".
C1_UnchangedRebuildUpToDate ==
    (pc = "done" /\ N >= 2 /\ run0.afterOk)
        => (commandsRun = <<>> /\ upToDate /\ err = "" /\ fs = run0.fs)

C1_Witness ==
    pc = "done" /\ N >= 2 /\ run0.afterOk /\ upToDate /\ now > 1

\* At the start of the run the project was fully built except that source k
\* was newer than its object.
OnlySourceNewer(k) ==
    /\ run0.fs[Exe] # 0
    /\ \A i \in 1..N : run0.fs[Obj(i)] # 0
    /\ run0.fs[srcs[k]] > run0.fs[Obj(k)]
    /\ \A j \in 1..N \ {k} :
         /\ run0.fs[srcs[j]] <= run0.fs[Obj(j)]
         /\ run0.fs[Hdr] <= run0.fs[Obj(j)]

\* C2: in a fully built project of two or more sources where only source k
\* is newer than its object, the run compiles source k and nothing else, links
\* exactly once after that compile succeeded, and leaves the objects of the
\* other sources untouched.
C2_OnlyStaleSourceRecompiled ==
    \A k \in 1..N :
        (pc = "done" /\ N >= 2 /\ OnlySourceNewer(k)) =>
            /\ Len(commandsRun) = (IF err = "compiling" THEN 1 ELSE 2)
            /\ commandsRun[1].kind = "compile"
            /\ CmdSource(commandsRun[1]) = srcs[k]
            /\ \A p \in 2..Len(commandsRun) : commandsRun[p].kind = "link"
            /\ \A j \in 1..N \ {k} : fs[Obj(j)] = run0.fs[Obj(j)]

C2_Witness ==
    /\ pc = "done" /\ N >= 2 /\ OnlySourceNewer(2)
    /\ err = "" /\ CmdKinds = <<"compile", "link">>

\* C4: in a multi-source run whose compiles all succeed the linker is invoked
\* exactly when some source was recompiled in this run or the binary did not
\* exist; its arguments are "-o", the binary, the objects of all sources in
\* source-list order, then the link flags.
C4_LinkIffRecompiledOrNoBinary ==
    (pc = "done" /\ N >= 2 /\ err # "compiling") =>
        /\ (LinkPositions # {}) <=> (CompilePositions # {} \/ run0.fs[Exe] = 0)
        /\ Cardinality(LinkPositions) <= 1
        /\ \A p \in LinkPositions :
             LET a == commandsRun[p].args
                 nf == Len(flags.LDFlags)
             IN  /\ Len(a) = 2 + N + nf
                 /\ a[1] = <<"-o", "">> /\ a[2] = Exe
                 /\ \A i \in 1..N : a[2 + i] = Obj(i)
                 /\ \A k \in 1..nf : a[2 + N + k] = <<flags.LDFlags[k], "">>

C4_Witness ==
    /\ pc = "done" /\ N >= 2 /\ err = ""
    /\ CompilePositions = {} /\ LinkPositions # {}

\* C5: when the compile of source i fails the run ends at once with an error:
\* the failed compile is the last command, no later source is compiled, there
\* is no link, and the objects written earlier in the run are still there.
C5_CompileFailureAborts ==
    (err = "compiling") =>
        /\ pc = "done"
        /\ Len(commandsRun) >= 1
        /\ commandsRun[Len(commandsRun)].kind = "compile"
        /\ CmdSource(commandsRun[Len(commandsRun)]) = srcs[idx]
        /\ LinkPositions = {}
        /\ \A j \in CompiledNow : j <= idx
        /\ \A j \in CompiledNow \ {idx} :
             fs[Obj(j)] # 0 /\ fs[Obj(j)] >= run0.fs[Obj(j)]
        /\ fs[Exe] = run0.fs[Exe]

C5_Witness ==
    /\ err = "compiling" /\ idx = 1 /\ N >= 2
    /\ NeedsRecompile(srcs[2], Obj(2), fs, dfiles)

\* C6: the compiles of a run happen in source-list order, one per source at
\* most; a link is the last command of the run and starts only when every
\* source has been dealt with and every compile has succeeded, so that no
\* source is left stale.
C6_CompilesInOrderThenLink ==
    /\ \A p, q \in CompilePositions :
         p < q => SrcIndex(CmdSource(commandsRun[p])) < SrcIndex(CmdSource(commandsRun[q]))
    /\ \A p \in CompilePositions :
         SrcIndex(CmdSource(commandsRun[p])) <= idx
    /\ \A p \in LinkPositions :
         /\ p = Len(commandsRun)
         /\ idx > N
         /\ Len(objFiles) = N
         /\ err # "compiling"
         /\ \A i \in 1..N :
              /\ fs[Obj(i)] # 0
              /\ fs[srcs[i]] <= fs[Obj(i)]
              /\ i \in CompiledNow => fs[Obj(i)] >= run0.fs[Hdr]

C6_Witness ==
    /\ N >= 2 /\ CmdKinds = <<"compile", "compile", "link">>

\* C7: whenever a run ends without error no object is newer than the binary.
C7_NoStaleBinary ==
    (pc = "done" /\ err = "" /\ N >= 2) =>
        \A i \in 1..N : fs[Obj(i)] <= fs[Exe]

\* C8: with exactly one source every run is one compiler invocation that
\* compiles and links (no -c, output is the binary), no object file is ever
\* created and the run never reports "up to date".
C8_SingleSourceAlwaysCompiles ==
    (N = 1) =>
        /\ \A o \in AllObjs : fs[o] = 0
        /\ ~upToDate
        /\ pc = "done" =>
             /\ Len(commandsRun) = 1
             /\ commandsRun[1].kind = "compile+link"
             /\ ~HasArg(commandsRun[1], <<"-c", "">>)
             /\ \E k \in 1..(Len(commandsRun[1].args) - 1) :
                  /\ commandsRun[1].args[k] = <<"-o", "">>
                  /\ commandsRun[1].args[k + 1] = Exe
             /\ HasArg(commandsRun[1], srcs[1])

C8_Witness ==
    /\ N = 1 /\ pc = "done" /\ err = ""
    /\ run0.fs[Exe] > run0.fs[srcs[1]]


\* ------------------------------------------------------------------------
\* needsRecompile on its own: one existing source, its object and a .d file
\* of any content
\* ------------------------------------------------------------------------
DepAlphabet == {Hdr, Colon, Space, NL, BS}

DepTexts == UNION {[1..n -> DepAlphabet] : n \in 0..MaxDepLen}

InitDep ==
    /\ srcs = SrcList(1)
    /\ includes = [i \in 1..1 |-> TRUE]
    /\ now = MaxTime
    /\ \E ts \in 1..MaxTime, to \in 0..MaxTime, th \in 0..MaxTime :
         fs = [f \in Files |->
                 IF f = srcs[1] THEN ts
                 ELSE IF f = ObjPath(srcs[1]) THEN to
                 ELSE IF f = Hdr THEN th
                 ELSE 0]
    /\ \E d \in {NoDep} \cup {[exists |-> TRUE, data |-> t] : t \in DepTexts} :
         dfiles = [p \in AllDeps |-> IF p = DepPath(ObjPath(srcs[1])) THEN d ELSE NoDep]
    /\ pc = "idle"
    /\ flags = NoFlags
    /\ idx = 1
    /\ needLink = FALSE
    /\ objFiles = <<>>
    /\ commandsRun = <<>>
    /\ err = ""
    /\ upToDate = FALSE
    /\ run0 = NoRun
    /\ unchanged = FALSE
    /\ nr = NoCall
    /\ ScanIdle
    /\ FlagsIdle
    /\ MergeIdle
    /\ MainIdle
    /\ ToolIdle

CallNeedsRecompile ==
    /\ ~nr.called
    /\ nr' = [called |-> TRUE,
              result |-> NeedsRecompile(srcs[1], ObjPath(srcs[1]), fs, dfiles)]
    /\ UNCHANGED <<buildVars, scanVars, flagVars, mergeVars, mainVars, toolVars>>

NextDep == CallNeedsRecompile

SpecDep == InitDep /\ [][NextDep]_vars

\* The .d file of the object, continuations joined.
Joined == ReplaceContinuations(dfiles[DepPath(Obj(1))].data)

\* Position p of text J holds a whole word: a single symbol with a space, a
\* line end or the cut colon c on its left and a space or a line end on its
\* right.
WholeWord(J, p, c) ==
    /\ ~IsSpace(J[p]) /\ J[p] # Colon
    /\ p = Len(J) \/ IsSpace(J[p + 1])
    /\ p - 1 = c \/ IsSpace(J[p - 1])

\* The files listed after the first colon of their own line.
ListedPerLine(J) ==
    {J[p] : p \in {q \in 2..Len(J) :
        \E c \in 1..(q - 1) :
            /\ J[c] = Colon
            /\ \A k \in 1..(c - 1) : J[k] = Colon => \E n \in k..c : J[n] = NL
            /\ \A n \in c..q : J[n] # NL
            /\ WholeWord(J, q, c)}}

\* The files listed after the first colon of the file.
ListedAfterFirstColon(J) ==
    {J[p] : p \in {q \in 2..Len(J) :
        \E c \in 1..(q - 1) :
            /\ J[c] = Colon
            /\ \A k \in 1..(c - 1) : J[k] # Colon
            /\ WholeWord(J, q, c)}}

RecompileExpected(listed) ==
    \/ fs[Obj(1)] = 0
    \/ fs[srcs[1]] > fs[Obj(1)]
    \/ /\ dfiles[DepPath(Obj(1))].exists
       /\ \E h \in listed : Stat(fs, h) # 0 /\ Stat(fs, h) > fs[Obj(1)]

StdHeaders == {
    "assert.h", "complex.h", "ctype.h", "errno.h", "fenv.h", "float.h",
    "inttypes.h", "iso646.h", "limits.h", "locale.h", "math.h", "setjmp.h",
    "signal.h", "stdalign.h", "stdarg.h", "stdatomic.h", "stdbool.h",
    "stddef.h", "stdint.h", "stdio.h", "stdlib.h", "stdnoreturn.h",
    "string.h", "tgmath.h", "threads.h", "time.h", "uchar.h", "wchar.h",
    "wctype.h", "cstdlib", "csignal", "csetjmp", "cstdarg", "typeinfo",
    "typeindex", "type_traits", "bitset", "functional", "utility", "ctime",
    "chrono", "cstddef", "initializer_list", "tuple", "any", "optional",
    "variant", "new", "memory", "scoped_allocator", "memory_resource",
    "climits", "cfloat", "cstring", "cctype", "cstdint", "cinttypes",
    "limits", "exception", "stdexcept", "cassert", "system_error",
    "cerrno", "array", "vector", "deque", "list", "forward_list", "set",
    "map", "unordered_set", "unordered_map", "stack", "queue", "algorithm",
    "execution", "iterator", "cmath", "complex", "valarray", "random",
    "numeric", "ratio", "cfenv", "iosfwd", "ios", "istream", "ostream",
    "iostream", "fstream", "sstream", "iomanip", "streambuf", "cstdio",
    "locale", "clocale", "regex", "atomic", "thread", "mutex",
    "shared_mutex", "future", "condition_variable", "filesystem",
    "compare", "charconv", "syncstream", "strstream", "codecvt", "string",
    "windows.h", "format", "version", "source_location", "span", "ranges",
    "bit", "numbers", "stop_token", "semaphore", "latch", "barrier",
    "concepts", "coroutine", "stacktrace", "dlfcn.h", "pthread.h", "glibc"}

\* win64SkipHeaders: the headers dropped when the target is win64
Win64SkipHeaders == {"X11/Xlib.h"}

\* localIncludePaths
LocalIncludePaths ==
    <<".", "include", "Include", "..", "../include", "../Include", "common",
      "Common", "../common", "../Common">>

\* The headers the scanned sources may name, and the places where a header
\* of the project may be.
ScanHeaders == {"vector", "util.h", "SDL2/SDL.h", "X11/Xlib.h"}
LocalCandidates == {<<".", "util.h">>, <<"include", "util.h">>}
ScanFiles == <<"main.cpp", "a.cpp">>

\* One #include line of a source: the header, <...> or "..." form, and
\* whether the line survives conditional compilation on this platform.
Directives == [hdr : ScanHeaders, form : {"angle", "quote"}, live : BOOLEAN]

Nil == [nil |-> TRUE, list |-> <<>>]
Slice(list) == [nil |-> FALSE, list |-> list]

\* the headers of the directives that survive conditional compilation
RECURSIVE LiveHeaders(_)
LiveHeaders(text) ==
    IF Len(text) = 0 THEN <<>>
    ELSE (IF text[1].live THEN <<text[1].hdr>> ELSE <<>>) \o LiveHeaders(Tail(text))

\* the headers of the directives written with <...>
RECURSIVE AngleHeaders(_)
AngleHeaders(text) ==
    IF Len(text) = 0 THEN <<>>
    ELSE (IF text[1].form = "angle" THEN <<text[1].hdr>> ELSE <<>>)
             \o AngleHeaders(Tail(text))

\* cppPreprocessIncludes: nil when the pipeline fails; otherwise the headers
\* of the #include lines that survive preprocessing, in both forms; the
\* slice is never appended to, and so nil, when there is none.
CppPreprocessIncludes(text, cppOk) ==
    IF ~cppOk THEN Nil
    ELSE LET found == LiveHeaders(text)
         IN  IF Len(found) = 0 THEN Nil ELSE Slice(found)

\* directScanIncludes: the <...> includes of every #include line
DirectScanIncludes(text) ==
    LET found == AngleHeaders(text)
    IN  IF Len(found) = 0 THEN Nil ELSE Slice(found)

\* isLocalInclude that looks in the project directory only
IsLocalIncludeDotOnly(inc, files) == <<".", inc>> \in files

\* isLocalInclude
IsLocalInclude(inc, files) ==
    \E k \in 1..Len(LocalIncludePaths) : <<LocalIncludePaths[k], inc>> \in files

InSeq(seq, x) == \E k \in 1..Len(seq) : seq[k] = x

\* the inner loop of collectExternalIncludes over the includes of one file
RECURSIVE FilterIncludes(_, _, _, _)
FilterIncludes(result, lines, w64, files) ==
    IF Len(lines) = 0 THEN result
    ELSE LET inc == lines[1]
             rest == Tail(lines)
         IN  IF inc \in StdHeaders THEN FilterIncludes(result, rest, w64, files)
             ELSE IF w64 /\ inc \in Win64SkipHeaders
                  THEN FilterIncludes(result, rest, w64, files)
             ELSE IF IsLocalInclude(inc, files)
                  THEN FilterIncludes(result, rest, w64, files)
             ELSE IF ~InSeq(result, inc)
                  THEN FilterIncludes(Append(result, inc), rest, w64, files)
             ELSE FilterIncludes(result, rest, w64, files)

\* the includes of one file: the preprocessor pass, else the direct scan
FileIncludes(text, cppOk) ==
    LET lines == CppPreprocessIncludes(text, cppOk)
    IN  IF lines.nil THEN DirectScanIncludes(text).list ELSE lines.list

\* collectExternalIncludes over the files from position k on
RECURSIVE CollectFrom(_, _, _, _, _, _)
CollectFrom(k, result, texts, cpp, w64, files) ==
    IF k > Len(texts) THEN result
    ELSE CollectFrom(k + 1,
                     FilterIncludes(result, FileIncludes(texts[k], cpp[k]), w64, files),
                     texts, cpp, w64, files)

CollectExternalIncludes(texts, cpp, w64, files) ==
    CollectFrom(1, <<>>, texts, cpp, w64, files)

Texts == UNION {[1..n -> Directives] : n \in 0..MaxDirectives}

InitScan ==
    /\ tree \in {t \in [1..Len(ScanFiles) -> Texts] :
                    Len(t[1]) + Len(t[2]) <= MaxDirectives}
    /\ localFiles \in SUBSET LocalCandidates
    /\ win64 \in BOOLEAN
    /\ proj = NoProject
    /\ FlagsIdle
    /\ MergeIdle
    /\ MainIdle
    /\ ToolIdle
    /\ nr = NoCall
    /\ srcs = SrcList(1)
    /\ includes = [i \in 1..1 |-> FALSE]
    /\ now = 1
    /\ fs = [f \in Files |-> 0]
    /\ dfiles = [p \in AllDeps |-> NoDep]
    /\ pc = "idle"
    /\ flags = NoFlags
    /\ idx = 1
    /\ needLink = FALSE
    /\ objFiles = <<>>
    /\ commandsRun = <<>>
    /\ err = ""
    /\ upToDate = FALSE
    /\ run0 = NoRun
    /\ unchanged = FALSE

\* detectProject: p.Includes = collectExternalIncludes(allSrcs, p.HasWin64);
\* the preprocessor pass works or fails file by file.
DetectIncludes ==
    /\ ~proj.detected
    /\ \E cpp \in [1..Len(tree) -> BOOLEAN] :
         proj' = [detected |-> TRUE, cpp |-> cpp,
                  Includes |-> CollectExternalIncludes(tree, cpp, win64, localFiles)]
    /\ UNCHANGED <<buildVars, nr, tree, localFiles, win64, flagVars, mergeVars, mainVars, toolVars>>

NextScan == DetectIncludes

SpecScan == InitScan /\ [][NextScan]_vars

\* C9: Project.Includes holds no header of the standard-library list and no
\* header that exists under a local include directory, whether the includes
\* of a file came from the preprocessor pass or from the textual scan.
C9_IncludesAreExternal ==
    proj.detected =>
        \A k \in 1..Len(proj.Includes) :
            /\ proj.Includes[k] \notin StdHeaders
            /\ \A d \in {".", "include", "Include", "..", "../include",
                         "../Include", "common", "Common", "../common",
                         "../Common"} :
                 <<d, proj.Includes[k]>> \notin localFiles

\* Both passes were used, the sources name a standard header and a header
\* found under include/, and both were dropped.
C9_Witness ==
    /\ proj.detected /\ proj.cpp = <<TRUE, FALSE>>
    /\ \E k \in 1..Len(tree[1]) : tree[1][k].hdr = "util.h" /\ tree[1][k].live
    /\ \E k \in 1..Len(tree[2]) : tree[2][k].hdr = "vector" /\ tree[2][k].form = "angle"
    /\ localFiles = {<<"include", "util.h">>}
    /\ proj.Includes = <<>>

\* ------------------------------------------------------------------------
\* External-include resolution of assembleFlags
\*
\* A header name, a package name and a flag string are Go strings that the
\* code lowers, cuts and splits, so here they are sequences of characters.
\* Spell gives the spelling of every string the model writes as a literal.
\* ------------------------------------------------------------------------
Spell ==
    ("." :> <<".">>) @@
    (".cpp" :> <<".", "c", "p", "p">>) @@
    (".h" :> <<".", "h">>) @@
    ("common" :> <<"c", "o", "m", "m", "o", "n">>) @@
    ("sub/x" :> <<"s", "u", "b", "/", "x">>) @@
    ("/usr/share/prog" :> <<"/", "u", "s", "r", "/", "s", "h", "a", "r", "e", "/", "p", "r", "o", "g">>) @@
    ("core/glibc" :> <<"c", "o", "r", "e", "/", "g", "l", "i", "b", "c">>) @@
    ("extra/sdl2" :> <<"e", "x", "t", "r", "a", "/", "s", "d", "l", "2">>) @@
    ("glibc" :> <<"g", "l", "i", "b", "c">>) @@
    ("libsdl2-dev" :> <<"l", "i", "b", "s", "d", "l", "2", "-", "d", "e", "v">>) @@
    ("wine" :> <<"w", "i", "n", "e">>) @@
    ("" :> <<>>) @@
    ("main" :> <<"m", "a", "i", "n">>) @@
    ("  // int main()\nint x;" :> <<" ", " ", "/", "/", " ", "i", "n", "t", " ", "m", "a", "i", "n", "(", ")", "\n", "i", "n", "t", " ", "x", ";">>) @@
    (" SDL_main(" :> <<" ", "S", "D", "L", "_", "m", "a", "i", "n", "(">>) @@
    (" main (" :> <<" ", "m", "a", "i", "n", " ", "(">>) @@
    (" main(" :> <<" ", "m", "a", "i", "n", "(">>) @@
    ("//" :> <<"/", "/">>) @@
    ("SDL_main(" :> <<"S", "D", "L", "_", "m", "a", "i", "n", "(">>) @@
    ("_test" :> <<"_", "t", "e", "s", "t">>) @@
    ("app" :> <<"a", "p", "p">>) @@
    ("f(); // main(" :> <<"f", "(", ")", ";", " ", "/", "/", " ", "m", "a", "i", "n", "(">>) @@
    ("foo_test" :> <<"f", "o", "o", "_", "t", "e", "s", "t">>) @@
    ("int SDL_main(int c) {" :> <<"i", "n", "t", " ", "S", "D", "L", "_", "m", "a", "i", "n", "(", "i", "n", "t", " ", "c", ")", " ", "{">>) @@
    ("int main() {" :> <<"i", "n", "t", " ", "m", "a", "i", "n", "(", ")", " ", "{">>) @@
    ("main (" :> <<"m", "a", "i", "n", " ", "(">>) @@
    ("main(" :> <<"m", "a", "i", "n", "(">>) @@
    ("test" :> <<"t", "e", "s", "t">>) @@
    ("void foo() {}" :> <<"v", "o", "i", "d", " ", "f", "o", "o", "(", ")", " ", "{", "}">>) @@
    ("x = domain(1);\n\tmain (void)" :> <<"x", " ", "=", " ", "d", "o", "m", "a", "i", "n", "(", "1", ")", ";", "\n", "\t", "m", "a", "i", "n", " ", "(", "v", "o", "i", "d", ")">>) @@
    ("-DTEST_CFLAG -march=native" :> <<"-", "D", "T", "E", "S", "T", "_", "C", "F", "L", "A", "G", " ", "-", "m", "a", "r", "c", "h", "=", "n", "a", "t", "i", "v", "e">>) @@
    ("-DTEST_FLAG -O3 -Wall -fPIC -fno-plt" :> <<"-", "D", "T", "E", "S", "T", "_", "F", "L", "A", "G", " ", "-", "O", "3", " ", "-", "W", "a", "l", "l", " ", "-", "f", "P", "I", "C", " ", "-", "f", "n", "o", "-", "p", "l", "t">>) @@
    ("-D_BSD_SOURCE" :> <<"-", "D", "_", "B", "S", "D", "_", "S", "O", "U", "R", "C", "E">>) @@
    ("-D_GNU_SOURCE" :> <<"-", "D", "_", "G", "N", "U", "_", "S", "O", "U", "R", "C", "E">>) @@
    ("-D_XOPEN_SOURCE=700" :> <<"-", "D", "_", "X", "O", "P", "E", "N", "_", "S", "O", "U", "R", "C", "E", "=", "7", "0", "0">>) @@
    ("-I/usr/include/qt6 -I/usr/include/qt6/Qt3DAnimation" :> <<"-", "I", "/", "u", "s", "r", "/", "i", "n", "c", "l", "u", "d", "e", "/", "q", "t", "6", " ", "-", "I", "/", "u", "s", "r", "/", "i", "n", "c", "l", "u", "d", "e", "/", "q", "t", "6", "/", "Q", "t", "3", "D", "A", "n", "i", "m", "a", "t", "i", "o", "n">>) @@
    ("-L/usr/local/lib" :> <<"-", "L", "/", "u", "s", "r", "/", "l", "o", "c", "a", "l", "/", "l", "i", "b">>) @@
    ("-L/usr/pkg/lib" :> <<"-", "L", "/", "u", "s", "r", "/", "p", "k", "g", "/", "l", "i", "b">>) @@
    ("-Llib" :> <<"-", "L", "l", "i", "b">>) @@
    ("-O3" :> <<"-", "O", "3">>) @@
    ("-Ofast" :> <<"-", "O", "f", "a", "s", "t">>) @@
    ("-Os" :> <<"-", "O", "s">>) @@
    ("-Wall" :> <<"-", "W", "a", "l", "l">>) @@
    ("-Wconversion" :> <<"-", "W", "c", "o", "n", "v", "e", "r", "s", "i", "o", "n">>) @@
    ("-Weffc++" :> <<"-", "W", "e", "f", "f", "c", "+", "+">>) @@
    ("-Wextra" :> <<"-", "W", "e", "x", "t", "r", "a">>) @@
    ("-Wfatal-errors" :> <<"-", "W", "f", "a", "t", "a", "l", "-", "e", "r", "r", "o", "r", "s">>) @@
    ("-Wignored-qualifiers" :> <<"-", "W", "i", "g", "n", "o", "r", "e", "d", "-", "q", "u", "a", "l", "i", "f", "i", "e", "r", "s">>) @@
    ("-Wl,--as-needed" :> <<"-", "W", "l", ",", "-", "-", "a", "s", "-", "n", "e", "e", "d", "e", "d">>) @@
    ("-Wl,-flto" :> <<"-", "W", "l", ",", "-", "f", "l", "t", "o">>) @@
    ("-Wl,-gc-sections" :> <<"-", "W", "l", ",", "-", "g", "c", "-", "s", "e", "c", "t", "i", "o", "n", "s">>) @@
    ("-Wl,-rpath" :> <<"-", "W", "l", ",", "-", "r", "p", "a", "t", "h">>) @@
    ("-Wl,-s" :> <<"-", "W", "l", ",", "-", "s">>) @@
    ("-Wl,-z,norelro" :> <<"-", "W", "l", ",", "-", "z", ",", "n", "o", "r", "e", "l", "r", "o">>) @@
    ("-Wl,-z,relro,-z,now" :> <<"-", "W", "l", ",", "-", "z", ",", "r", "e", "l", "r", "o", ",", "-", "z", ",", "n", "o", "w">>) @@
    ("-Wl,-zignore" :> <<"-", "W", "l", ",", "-", "z", "i", "g", "n", "o", "r", "e">>) @@
    ("-Wno-parentheses" :> <<"-", "W", "n", "o", "-", "p", "a", "r", "e", "n", "t", "h", "e", "s", "e", "s">>) @@
    ("-Wno-unknown-pragmas" :> <<"-", "W", "n", "o", "-", "u", "n", "k", "n", "o", "w", "n", "-", "p", "r", "a", "g", "m", "a", "s">>) @@
    ("-Wno-unused-variable" :> <<"-", "W", "n", "o", "-", "u", "n", "u", "s", "e", "d", "-", "v", "a", "r", "i", "a", "b", "l", "e">>) @@
    ("-Wparentheses" :> <<"-", "W", "p", "a", "r", "e", "n", "t", "h", "e", "s", "e", "s">>) @@
    ("-Wpedantic" :> <<"-", "W", "p", "e", "d", "a", "n", "t", "i", "c">>) @@
    ("-Wshadow" :> <<"-", "W", "s", "h", "a", "d", "o", "w">>) @@
    ("-Wunused-function" :> <<"-", "W", "u", "n", "u", "s", "e", "d", "-", "f", "u", "n", "c", "t", "i", "o", "n">>) @@
    ("-Wvla" :> <<"-", "W", "v", "l", "a">>) @@
    ("-coverage" :> <<"-", "c", "o", "v", "e", "r", "a", "g", "e">>) @@
    ("-fPIC" :> <<"-", "f", "P", "I", "C">>) @@
    ("-fdata-sections" :> <<"-", "f", "d", "a", "t", "a", "-", "s", "e", "c", "t", "i", "o", "n", "s">>) @@
    ("-ffunction-sections" :> <<"-", "f", "f", "u", "n", "c", "t", "i", "o", "n", "-", "s", "e", "c", "t", "i", "o", "n", "s">>) @@
    ("-flto" :> <<"-", "f", "l", "t", "o">>) @@
    ("-fms-extensions" :> <<"-", "f", "m", "s", "-", "e", "x", "t", "e", "n", "s", "i", "o", "n", "s">>) @@
    ("-fno-ident" :> <<"-", "f", "n", "o", "-", "i", "d", "e", "n", "t">>) @@
    ("-fno-omit-frame-pointer" :> <<"-", "f", "n", "o", "-", "o", "m", "i", "t", "-", "f", "r", "a", "m", "e", "-", "p", "o", "i", "n", "t", "e", "r">>) @@
    ("-fno-plt" :> <<"-", "f", "n", "o", "-", "p", "l", "t">>) @@
    ("-fno-rtti" :> <<"-", "f", "n", "o", "-", "r", "t", "t", "i">>) @@
    ("-fomit-frame-pointer" :> <<"-", "f", "o", "m", "i", "t", "-", "f", "r", "a", "m", "e", "-", "p", "o", "i", "n", "t", "e", "r">>) @@
    ("-fopenmp" :> <<"-", "f", "o", "p", "e", "n", "m", "p">>) @@
    ("-fpermissive" :> <<"-", "f", "p", "e", "r", "m", "i", "s", "s", "i", "v", "e">>) @@
    ("-fprofile-correction" :> <<"-", "f", "p", "r", "o", "f", "i", "l", "e", "-", "c", "o", "r", "r", "e", "c", "t", "i", "o", "n">>) @@
    ("-fprofile-generate" :> <<"-", "f", "p", "r", "o", "f", "i", "l", "e", "-", "g", "e", "n", "e", "r", "a", "t", "e">>) @@
    ("-fprofile-use" :> <<"-", "f", "p", "r", "o", "f", "i", "l", "e", "-", "u", "s", "e">>) @@
    ("-fstack-protector-strong" :> <<"-", "f", "s", "t", "a", "c", "k", "-", "p", "r", "o", "t", "e", "c", "t", "o", "r", "-", "s", "t", "r", "o", "n", "g">>) @@
    ("-lQt6Concurrent -lQt6Core" :> <<"-", "l", "Q", "t", "6", "C", "o", "n", "c", "u", "r", "r", "e", "n", "t", " ", "-", "l", "Q", "t", "6", "C", "o", "r", "e">>) @@
    ("-lboost_system" :> <<"-", "l", "b", "o", "o", "s", "t", "_", "s", "y", "s", "t", "e", "m">>) @@
    ("-lstdc++fs" :> <<"-", "l", "s", "t", "d", "c", "+", "+", "f", "s">>) @@
    ("-mwindows" :> <<"-", "m", "w", "i", "n", "d", "o", "w", "s">>) @@
    ("-nostdlib" :> <<"-", "n", "o", "s", "t", "d", "l", "i", "b">>) @@
    ("-pipe" :> <<"-", "p", "i", "p", "e">>) @@
    ("-s" :> <<"-", "s">>) @@
    ("-static-libasan" :> <<"-", "s", "t", "a", "t", "i", "c", "-", "l", "i", "b", "a", "s", "a", "n">>) @@
    ("-static-libsan" :> <<"-", "s", "t", "a", "t", "i", "c", "-", "l", "i", "b", "s", "a", "n">>) @@
    ("-w" :> <<"-", "w">>) @@
    ("../" :> <<".", ".", "/">>) @@
    ("./lib" :> <<".", "/", "l", "i", "b">>) @@
    ("/usr/bin/" :> <<"/", "u", "s", "r", "/", "b", "i", "n", "/">>) @@
    ("/usr/lib/libboost_system.so" :> <<"/", "u", "s", "r", "/", "l", "i", "b", "/", "l", "i", "b", "b", "o", "o", "s", "t", "_", "s", "y", "s", "t", "e", "m", ".", "s", "o">>) @@
    ("/usr/x86_64-w64-mingw32/include" :> <<"/", "u", "s", "r", "/", "x", "8", "6", "_", "6", "4", "-", "w", "6", "4", "-", "m", "i", "n", "g", "w", "3", "2", "/", "i", "n", "c", "l", "u", "d", "e">>) @@
    ("DATADIR" :> <<"D", "A", "T", "A", "D", "I", "R">>) @@
    ("IMGDIR" :> <<"I", "M", "G", "D", "I", "R">>) @@
    ("RESDIR" :> <<"R", "E", "S", "D", "I", "R">>) @@
    ("RESOURCEDIR" :> <<"R", "E", "S", "O", "U", "R", "C", "E", "D", "I", "R">>) @@
    ("SCRIPTDIR" :> <<"S", "C", "R", "I", "P", "T", "D", "I", "R">>) @@
    ("SHADERDIR" :> <<"S", "H", "A", "D", "E", "R", "D", "I", "R">>) @@
    ("SHAREDIR" :> <<"S", "H", "A", "R", "E", "D", "I", "R">>) @@
    ("boost_" :> <<"b", "o", "o", "s", "t", "_">>) @@
    ("boost_filesystem" :> <<"b", "o", "o", "s", "t", "_", "f", "i", "l", "e", "s", "y", "s", "t", "e", "m">>) @@
    ("clang" :> <<"c", "l", "a", "n", "g">>) @@
    ("clang++" :> <<"c", "l", "a", "n", "g", "+", "+">>) @@
    ("data" :> <<"d", "a", "t", "a">>) @@
    ("foo" :> <<"f", "o", "o">>) @@
    ("g++" :> <<"g", "+", "+">>) @@
    ("gcc" :> <<"g", "c", "c">>) @@
    ("img" :> <<"i", "m", "g">>) @@
    ("include" :> <<"i", "n", "c", "l", "u", "d", "e">>) @@
    ("lib" :> <<"l", "i", "b">>) @@
    ("lib/libfoo.so" :> <<"l", "i", "b", "/", "l", "i", "b", "f", "o", "o", ".", "s", "o">>) @@
    ("main.gcda" :> <<"m", "a", "i", "n", ".", "g", "c", "d", "a">>) @@
    ("res" :> <<"r", "e", "s">>) @@
    ("resource" :> <<"r", "e", "s", "o", "u", "r", "c", "e">>) @@
    ("resources" :> <<"r", "e", "s", "o", "u", "r", "c", "e", "s">>) @@
    ("scripts" :> <<"s", "c", "r", "i", "p", "t", "s">>) @@
    ("shader" :> <<"s", "h", "a", "d", "e", "r">>) @@
    ("shaders" :> <<"s", "h", "a", "d", "e", "r", "s">>) @@
    ("share" :> <<"s", "h", "a", "r", "e">>) @@
    ("x86_64-w64-mingw32-g++" :> <<"x", "8", "6", "_", "6", "4", "-", "w", "6", "4", "-", "m", "i", "n", "g", "w", "3", "2", "-", "g", "+", "+">>) @@
    ("x86_64-w64-mingw32-gcc" :> <<"x", "8", "6", "_", "6", "4", "-", "w", "6", "4", "-", "m", "i", "n", "g", "w", "3", "2", "-", "g", "c", "c">>) @@
    ("zapcc++" :> <<"z", "a", "p", "c", "c", "+", "+">>) @@
    ("-D" :> <<"-", "D">>) @@
    ("D" :> <<"D">>) @@
    ("-D_REENTRANT -lSDL2" :> <<"-", "D", "_", "R", "E", "E", "N", "T", "R", "A", "N", "T", " ", "-", "l", "S", "D", "L", "2">>) @@
    ("-F/Library/Frameworks" :> <<"-", "F", "/", "L", "i", "b", "r", "a", "r", "y", "/", "F", "r", "a", "m", "e", "w", "o", "r", "k", "s">>) @@
    ("-F/System/Library/Frameworks" :> <<"-", "F", "/", "S", "y", "s", "t", "e", "m", "/", "L", "i", "b", "r", "a", "r", "y", "/", "F", "r", "a", "m", "e", "w", "o", "r", "k", "s">>) @@
    ("-I" :> <<"-", "I">>) @@
    ("-I/System/Library/Frameworks/OpenAL.framework/Headers" :> <<"-", "I", "/", "S", "y", "s", "t", "e", "m", "/", "L", "i", "b", "r", "a", "r", "y", "/", "F", "r", "a", "m", "e", "w", "o", "r", "k", "s", "/", "O", "p", "e", "n", "A", "L", ".", "f", "r", "a", "m", "e", "w", "o", "r", "k", "/", "H", "e", "a", "d", "e", "r", "s">>) @@
    ("-I/usr/local/include" :> <<"-", "I", "/", "u", "s", "r", "/", "l", "o", "c", "a", "l", "/", "i", "n", "c", "l", "u", "d", "e">>) @@
    ("-L" :> <<"-", "L">>) @@
    ("-O0" :> <<"-", "O", "0">>) @@
    ("-O2" :> <<"-", "O", "2">>) @@
    ("-Wl," :> <<"-", "W", "l", ",">>) @@
    ("-Wl,-export-dynamic" :> <<"-", "W", "l", ",", "-", "e", "x", "p", "o", "r", "t", "-", "d", "y", "n", "a", "m", "i", "c">>) @@
    ("-Wno-class-memaccess" :> <<"-", "W", "n", "o", "-", "c", "l", "a", "s", "s", "-", "m", "e", "m", "a", "c", "c", "e", "s", "s">>) @@
    ("-Wno-pedantic" :> <<"-", "W", "n", "o", "-", "p", "e", "d", "a", "n", "t", "i", "c">>) @@
    ("-Wno-shadow" :> <<"-", "W", "n", "o", "-", "s", "h", "a", "d", "o", "w">>) @@
    ("-framework" :> <<"-", "f", "r", "a", "m", "e", "w", "o", "r", "k">>) @@
    ("-fsanitize=address" :> <<"-", "f", "s", "a", "n", "i", "t", "i", "z", "e", "=", "a", "d", "d", "r", "e", "s", "s">>) @@
    ("-g" :> <<"-", "g">>) @@
    ("-l" :> <<"-", "l">>) @@
    ("-lGL" :> <<"-", "l", "G", "L">>) @@
    ("-lGLEW -lGL" :> <<"-", "l", "G", "L", "E", "W", " ", "-", "l", "G", "L">>) @@
    ("-ldl" :> <<"-", "l", "d", "l">>) @@
    ("-lglew32" :> <<"-", "l", "g", "l", "e", "w", "3", "2">>) @@
    ("-lglu32" :> <<"-", "l", "g", "l", "u", "3", "2">>) @@
    ("-lglut" :> <<"-", "l", "g", "l", "u", "t">>) @@
    ("-lm" :> <<"-", "l", "m">>) @@
    ("-lopenal" :> <<"-", "l", "o", "p", "e", "n", "a", "l">>) @@
    ("-lopenal32" :> <<"-", "l", "o", "p", "e", "n", "a", "l", "3", "2">>) @@
    ("-lopengl32" :> <<"-", "l", "o", "p", "e", "n", "g", "l", "3", "2">>) @@
    ("-lpthread" :> <<"-", "l", "p", "t", "h", "r", "e", "a", "d">>) @@
    ("-lvulkan" :> <<"-", "l", "v", "u", "l", "k", "a", "n">>) @@
    ("-lz" :> <<"-", "l", "z">>) @@
    ("-pthread" :> <<"-", "p", "t", "h", "r", "e", "a", "d">>) @@
    (".framework" :> <<".", "f", "r", "a", "m", "e", "w", "o", "r", "k">>) @@
    (".pc" :> <<".", "p", "c">>) @@
    ("/" :> <<"/">>) @@
    ("/Library/Frameworks" :> <<"/", "L", "i", "b", "r", "a", "r", "y", "/", "F", "r", "a", "m", "e", "w", "o", "r", "k", "s">>) @@
    ("/Library/Frameworks/" :> <<"/", "L", "i", "b", "r", "a", "r", "y", "/", "F", "r", "a", "m", "e", "w", "o", "r", "k", "s", "/">>) @@
    ("/System/Library/Frameworks" :> <<"/", "S", "y", "s", "t", "e", "m", "/", "L", "i", "b", "r", "a", "r", "y", "/", "F", "r", "a", "m", "e", "w", "o", "r", "k", "s">>) @@
    ("/al.h" :> <<"/", "a", "l", ".", "h">>) @@
    ("/freeglut.h" :> <<"/", "f", "r", "e", "e", "g", "l", "u", "t", ".", "h">>) @@
    ("/glew.h" :> <<"/", "g", "l", "e", "w", ".", "h">>) @@
    ("/glut.h" :> <<"/", "g", "l", "u", "t", ".", "h">>) @@
    ("/qt" :> <<"/", "q", "t">>) @@
    ("/usr/include" :> <<"/", "u", "s", "r", "/", "i", "n", "c", "l", "u", "d", "e">>) @@
    ("/usr/lib" :> <<"/", "u", "s", "r", "/", "l", "i", "b">>) @@
    ("/usr/lib/libGL.so" :> <<"/", "u", "s", "r", "/", "l", "i", "b", "/", "l", "i", "b", "G", "L", ".", "s", "o">>) @@
    ("/usr/lib/pkgconfig/glew.pc" :> <<"/", "u", "s", "r", "/", "l", "i", "b", "/", "p", "k", "g", "c", "o", "n", "f", "i", "g", "/", "g", "l", "e", "w", ".", "p", "c">>) @@
    ("/usr/lib/pkgconfig/glm.pc" :> <<"/", "u", "s", "r", "/", "l", "i", "b", "/", "p", "k", "g", "c", "o", "n", "f", "i", "g", "/", "g", "l", "m", ".", "p", "c">>) @@
    ("/usr/lib/pkgconfig/sdl2.pc" :> <<"/", "u", "s", "r", "/", "l", "i", "b", "/", "p", "k", "g", "c", "o", "n", "f", "i", "g", "/", "s", "d", "l", "2", ".", "p", "c">>) @@
    ("/usr/lib/pkgconfig/zlib.pc" :> <<"/", "u", "s", "r", "/", "l", "i", "b", "/", "p", "k", "g", "c", "o", "n", "f", "i", "g", "/", "z", "l", "i", "b", ".", "p", "c">>) @@
    ("/usr/lib/x86_64-linux-gnu" :> <<"/", "u", "s", "r", "/", "l", "i", "b", "/", "x", "8", "6", "_", "6", "4", "-", "l", "i", "n", "u", "x", "-", "g", "n", "u">>) @@
    ("/usr/local/include" :> <<"/", "u", "s", "r", "/", "l", "o", "c", "a", "l", "/", "i", "n", "c", "l", "u", "d", "e">>) @@
    ("/usr/local/lib" :> <<"/", "u", "s", "r", "/", "l", "o", "c", "a", "l", "/", "l", "i", "b">>) @@
    ("/usr/pkg/include" :> <<"/", "u", "s", "r", "/", "p", "k", "g", "/", "i", "n", "c", "l", "u", "d", "e">>) @@
    ("/usr/pkg/lib" :> <<"/", "u", "s", "r", "/", "p", "k", "g", "/", "l", "i", "b">>) @@
    ("GL/glew.h" :> <<"G", "L", "/", "g", "l", "e", "w", ".", "h">>) @@
    ("GLUT" :> <<"G", "L", "U", "T">>) @@
    ("OpenAL" :> <<"O", "p", "e", "n", "A", "L">>) @@
    ("OpenGL" :> <<"O", "p", "e", "n", "G", "L">>) @@
    ("Q" :> <<"Q">>) @@
    ("RapidJSON" :> <<"R", "a", "p", "i", "d", "J", "S", "O", "N">>) @@
    ("SDL2/SDL.h" :> <<"S", "D", "L", "2", "/", "S", "D", "L", ".", "h">>) @@
    ("SDL2_" :> <<"S", "D", "L", "2", "_">>) @@
    ("SDL2_image" :> <<"S", "D", "L", "2", "_", "i", "m", "a", "g", "e">>) @@
    ("SDL2_mixer" :> <<"S", "D", "L", "2", "_", "m", "i", "x", "e", "r">>) @@
    ("SDL2_net" :> <<"S", "D", "L", "2", "_", "n", "e", "t">>) @@
    ("SDL2_ttf" :> <<"S", "D", "L", "2", "_", "t", "t", "f">>) @@
    ("al/" :> <<"a", "l", "/">>) @@
    ("al/al.h" :> <<"a", "l", "/", "a", "l", ".", "h">>) @@
    ("al/alc.h" :> <<"a", "l", "/", "a", "l", "c", ".", "h">>) @@
    ("boost/" :> <<"b", "o", "o", "s", "t", "/">>) @@
    ("condition_variable" :> <<"c", "o", "n", "d", "i", "t", "i", "o", "n", "_", "v", "a", "r", "i", "a", "b", "l", "e">>) @@
    ("dlfcn.h" :> <<"d", "l", "f", "c", "n", ".", "h">>) @@
    ("fcgi" :> <<"f", "c", "g", "i">>) @@
    ("fcgiapp.h" :> <<"f", "c", "g", "i", "a", "p", "p", ".", "h">>) @@
    ("freeglut" :> <<"f", "r", "e", "e", "g", "l", "u", "t">>) @@
    ("future" :> <<"f", "u", "t", "u", "r", "e">>) @@
    ("gl" :> <<"g", "l">>) @@
    ("gl/" :> <<"g", "l", "/">>) @@
    ("gl/freeglut.h" :> <<"g", "l", "/", "f", "r", "e", "e", "g", "l", "u", "t", ".", "h">>) @@
    ("gl/gl.h" :> <<"g", "l", "/", "g", "l", ".", "h">>) @@
    ("gl/glew.h" :> <<"g", "l", "/", "g", "l", "e", "w", ".", "h">>) @@
    ("gl/glut.h" :> <<"g", "l", "/", "g", "l", "u", "t", ".", "h">>) @@
    ("glew" :> <<"g", "l", "e", "w">>) @@
    ("glfw/" :> <<"g", "l", "f", "w", "/">>) @@
    ("glfw/glfw3.h" :> <<"g", "l", "f", "w", "/", "g", "l", "f", "w", "3", ".", "h">>) @@
    ("glfw3" :> <<"g", "l", "f", "w", "3">>) @@
    ("glm" :> <<"g", "l", "m">>) @@
    ("glm/" :> <<"g", "l", "m", "/">>) @@
    ("glm/glm.hpp" :> <<"g", "l", "m", "/", "g", "l", "m", ".", "h", "p", "p">>) @@
    ("glu" :> <<"g", "l", "u">>) @@
    ("glut/" :> <<"g", "l", "u", "t", "/">>) @@
    ("gtk/gtk.h" :> <<"g", "t", "k", "/", "g", "t", "k", ".", "h">>) @@
    ("gtk4" :> <<"g", "t", "k", "4">>) @@
    ("libGL.so" :> <<"l", "i", "b", "G", "L", ".", "s", "o">>) @@
    ("libconfig" :> <<"l", "i", "b", "c", "o", "n", "f", "i", "g">>) @@
    ("libconfig++" :> <<"l", "i", "b", "c", "o", "n", "f", "i", "g", "+", "+">>) @@
    ("libconfig.h" :> <<"l", "i", "b", "c", "o", "n", "f", "i", "g", ".", "h">>) @@
    ("libconfig.h++" :> <<"l", "i", "b", "c", "o", "n", "f", "i", "g", ".", "h", "+", "+">>) @@
    ("libglut.so" :> <<"l", "i", "b", "g", "l", "u", "t", ".", "s", "o">>) @@
    ("libglvnd" :> <<"l", "i", "b", "g", "l", "v", "n", "d">>) @@
    ("libopenal.so" :> <<"l", "i", "b", "o", "p", "e", "n", "a", "l", ".", "s", "o">>) @@
    ("libpipewire-0.3" :> <<"l", "i", "b", "p", "i", "p", "e", "w", "i", "r", "e", "-", "0", ".", "3">>) @@
    ("mutex" :> <<"m", "u", "t", "e", "x">>) @@
    ("new" :> <<"n", "e", "w">>) @@
    ("openal" :> <<"o", "p", "e", "n", "a", "l">>) @@
    ("opengl" :> <<"o", "p", "e", "n", "g", "l">>) @@
    ("opengl/" :> <<"o", "p", "e", "n", "g", "l", "/">>) @@
    ("pipewire/pipewire.h" :> <<"p", "i", "p", "e", "w", "i", "r", "e", "/", "p", "i", "p", "e", "w", "i", "r", "e", ".", "h">>) @@
    ("pthread.h" :> <<"p", "t", "h", "r", "e", "a", "d", ".", "h">>) @@
    ("raylib" :> <<"r", "a", "y", "l", "i", "b">>) @@
    ("raylib.h" :> <<"r", "a", "y", "l", "i", "b", ".", "h">>) @@
    ("rtaudio" :> <<"r", "t", "a", "u", "d", "i", "o">>) @@
    ("rtaudio/rtaudio.h" :> <<"r", "t", "a", "u", "d", "i", "o", "/", "r", "t", "a", "u", "d", "i", "o", ".", "h">>) @@
    ("sdl2" :> <<"s", "d", "l", "2">>) @@
    ("sdl2/sdl.h" :> <<"s", "d", "l", "2", "/", "s", "d", "l", ".", "h">>) @@
    ("sdl2/sdl_" :> <<"s", "d", "l", "2", "/", "s", "d", "l", "_">>) @@
    ("sdl2/sdl_image.h" :> <<"s", "d", "l", "2", "/", "s", "d", "l", "_", "i", "m", "a", "g", "e", ".", "h">>) @@
    ("sdl2/sdl_mixer.h" :> <<"s", "d", "l", "2", "/", "s", "d", "l", "_", "m", "i", "x", "e", "r", ".", "h">>) @@
    ("sdl2/sdl_net.h" :> <<"s", "d", "l", "2", "/", "s", "d", "l", "_", "n", "e", "t", ".", "h">>) @@
    ("sdl2/sdl_ttf.h" :> <<"s", "d", "l", "2", "/", "s", "d", "l", "_", "t", "t", "f", ".", "h">>) @@
    ("sfml-" :> <<"s", "f", "m", "l", "-">>) @@
    ("sfml/" :> <<"s", "f", "m", "l", "/">>) @@
    ("thread" :> <<"t", "h", "r", "e", "a", "d">>) @@
    ("vulkan" :> <<"v", "u", "l", "k", "a", "n">>) @@
    ("vulkan/" :> <<"v", "u", "l", "k", "a", "n", "/">>) @@
    ("vulkan/vulkan.h" :> <<"v", "u", "l", "k", "a", "n", "/", "v", "u", "l", "k", "a", "n", ".", "h">>) @@
    ("x11" :> <<"x", "1", "1">>) @@
    ("x11/xlib.h" :> <<"x", "1", "1", "/", "x", "l", "i", "b", ".", "h">>) @@
    ("x11/xutil.h" :> <<"x", "1", "1", "/", "x", "u", "t", "i", "l", ".", "h">>) @@
    ("zlib" :> <<"z", "l", "i", "b">>) @@
    ("zlib.h" :> <<"z", "l", "i", "b", ".", "h">>)

LowerOf ==
    ("A" :> "a") @@ ("B" :> "b") @@ ("C" :> "c") @@ ("D" :> "d") @@
    ("E" :> "e") @@ ("F" :> "f") @@ ("G" :> "g") @@ ("H" :> "h") @@
    ("I" :> "i") @@ ("J" :> "j") @@ ("K" :> "k") @@ ("L" :> "l") @@
    ("M" :> "m") @@ ("N" :> "n") @@ ("O" :> "o") @@ ("P" :> "p") @@
    ("Q" :> "q") @@ ("R" :> "r") @@ ("S" :> "s") @@ ("T" :> "t") @@
    ("U" :> "u") @@ ("V" :> "v") @@ ("W" :> "w") @@ ("X" :> "x") @@
    ("Y" :> "y") @@ ("Z" :> "z")

\* strings.ToLower
ToLower(s) ==
    [k \in 1..Len(s) |-> IF s[k] \in DOMAIN LowerOf THEN LowerOf[s[k]] ELSE s[k]]

\* strings.HasPrefix, strings.HasSuffix, strings.Contains, strings.TrimSuffix
HasPrefix(s, p) == Len(s) >= Len(p) /\ SubSeq(s, 1, Len(p)) = p

HasSuffix(s, p) ==
    Len(s) >= Len(p) /\ SubSeq(s, Len(s) - Len(p) + 1, Len(s)) = p

Contains(s, p) ==
    \E k \in 1..(Len(s) - Len(p) + 1) : SubSeq(s, k, k + Len(p) - 1) = p

TrimSuffix(s, p) ==
    IF HasSuffix(s, p) THEN SubSeq(s, 1, Len(s) - Len(p)) ELSE s

\* The last position of c in s, 0 when there is none (strings.LastIndex + 1).
LastIndexOf(s, c) ==
    IF \E k \in 1..Len(s) : s[k] = c
    THEN CHOOSE k \in 1..Len(s) : s[k] = c /\ \A j \in (k + 1)..Len(s) : s[j] # c
    ELSE 0

\* filepath.Base
RECURSIVE Base(_)
Base(path) ==
    IF Len(path) = 0 THEN <<".">>
    ELSE IF path[Len(path)] = "/"
         THEN IF Len(path) = 1 THEN <<"/">>
              ELSE Base(SubSeq(path, 1, Len(path) - 1))
         ELSE SubSeq(path, LastIndexOf(path, "/") + 1, Len(path))

\* filepath.Ext: from the last dot of the last path element
Ext(path) ==
    LET dot == LastIndexOf(path, ".")
    IN  IF dot > LastIndexOf(path, "/") THEN SubSeq(path, dot, Len(path))
        ELSE <<>>

\* strings.Split(s, "/")[0]
FirstComponent(s) ==
    LET k == IndexOf(s, "/")
    IN  IF k = 0 THEN s ELSE SubSeq(s, 1, k - 1)

\* unicode.IsSpace, for the characters a flag string can hold
IsFlagSpace(c) == c \in {" ", "\t", "\n", "\r"}

\* strings.Fields / strings.FieldsSeq on a flag string
RECURSIVE FlagFields(_)
FlagFields(s) ==
    IF Len(s) = 0 THEN <<>>
    ELSE IF IsFlagSpace(s[1]) THEN FlagFields(Tail(s))
    ELSE LET stop == IF \E k \in 1..Len(s) : IsFlagSpace(s[k])
                     THEN CHOOSE k \in 1..Len(s) :
                              IsFlagSpace(s[k])
                              /\ \A j \in 1..(k - 1) : ~IsFlagSpace(s[j])
                     ELSE Len(s) + 1
         IN  <<SubSeq(s, 1, stop - 1)>> \o FlagFields(SubSeq(s, stop, Len(s)))

\* strings.Join(tokens, " ")
RECURSIVE JoinFlags(_)
JoinFlags(tokens) ==
    IF Len(tokens) = 0 THEN <<>>
    ELSE IF Len(tokens) = 1 THEN tokens[1]
    ELSE tokens[1] \o <<" ">> \o JoinFlags(Tail(tokens))

\* appendUnique without the slices.Contains test
AppendAlways(slice, val) == Append(slice, val)

AppendUnique(slice, val) ==
    IF InSeq(slice, val) THEN slice ELSE Append(slice, val)

IsLinkToken(f) ==
    \/ HasPrefix(f, Spell["-l"])
    \/ HasPrefix(f, Spell["-L"])
    \/ HasPrefix(f, Spell["-Wl,"])

RECURSIVE MergeTokens(_, _)
MergeTokens(st, tokens) ==
    IF Len(tokens) = 0 THEN st
    ELSE IF IsLinkToken(Head(tokens))
         THEN MergeTokens([st EXCEPT !.l = AppendUnique(@, Head(tokens))],
                          Tail(tokens))
         ELSE MergeTokens([st EXCEPT !.c = AppendUnique(@, Head(tokens))],
                          Tail(tokens))

MergeFlags(st, flagString) == MergeTokens(st, FlagFields(flagString))

AddC(st, name) == [st EXCEPT !.c = AppendUnique(@, Spell[name])]
AddL(st, name) == [st EXCEPT !.l = AppendUnique(@, Spell[name])]

\* The machine the flags are assembled on.  e.hasPkg: pkg-config is on the
\* PATH; e.installed: the packages pkg-config knows; e.goos: runtime.GOOS;
\* e.paths: the probed paths that exist; e.pm[h]: how the package manager
\* side finds header h: "direct" when <system include dir>/h exists and a
\* package owns it, "find" when only the search below the directory finds
\* such a file, "none" otherwise.
PcPackages == {"sdl2", "glew", "zlib"}

\* the output of pkg-config --cflags --libs for the packages it can know
PcOutput ==
    ("sdl2" :> "-D_REENTRANT -lSDL2") @@ ("glew" :> "-lGLEW -lGL") @@
    ("zlib" :> "-lz")

\* the .pc files of the package that owns the header (lookupPCFiles)
PcFilesOf ==
    ("SDL2/SDL.h" :> <<"/usr/lib/pkgconfig/sdl2.pc">>) @@
    ("GL/glew.h" :> <<"/usr/lib/pkgconfig/glew.pc">>) @@
    ("glm/glm.hpp" :> <<"/usr/lib/pkgconfig/glm.pc">>) @@
    ("zlib.h" :> <<"/usr/lib/pkgconfig/zlib.pc">>)

Hosts ==
    {[goos |-> "linux", paths |-> {}],
     [goos |-> "linux", paths |-> {"/usr/include"}],
     [goos |-> "linux", paths |-> {"/usr/include", "/usr/lib/libGL.so"}],
     [goos |-> "darwin", paths |-> {"/usr/local/include", "/Library/Frameworks"}]}

\* fileExists, for a path given by its spelling
FileExistsAt(path, e) == \E p \in e.paths : Spell[p] = path

\* pkgConfigFlags: the trimmed output of pkg-config, "" when it fails
PkgConfigFlags(pkg, e) ==
    IF \E p \in e.installed : Spell[p] = pkg
    THEN Spell[PcOutput[CHOOSE p \in e.installed : Spell[p] = pkg]]
    ELSE <<>>

\* systemIncludeDirs; the directory named after the compiler's machine
\* triple exists on none of the hosts
SystemIncludeDirs(e) ==
    SelectSeq(<<Spell["/usr/include"], Spell["/usr/local/include"],
                Spell["/usr/pkg/include"]>>,
              LAMBDA d : FileExistsAt(d, e))

Mappings ==
    ("sdl2/sdl.h" :> "sdl2") @@ ("sdl2/sdl_image.h" :> "SDL2_image") @@
    ("sdl2/sdl_mixer.h" :> "SDL2_mixer") @@ ("sdl2/sdl_ttf.h" :> "SDL2_ttf") @@
    ("sdl2/sdl_net.h" :> "SDL2_net") @@ ("gtk/gtk.h" :> "gtk4") @@
    ("gl/gl.h" :> "gl") @@ ("gl/glew.h" :> "glew") @@ ("gl/glut.h" :> "glu") @@
    ("gl/freeglut.h" :> "freeglut") @@ ("glfw/glfw3.h" :> "glfw3") @@
    ("al/al.h" :> "openal") @@ ("al/alc.h" :> "openal") @@
    ("vulkan/vulkan.h" :> "vulkan") @@ ("x11/xlib.h" :> "x11") @@
    ("x11/xutil.h" :> "x11") @@ ("libconfig.h++" :> "libconfig++") @@
    ("libconfig.h" :> "libconfig") @@ ("fcgiapp.h" :> "fcgi") @@
    ("pipewire/pipewire.h" :> "libpipewire-0.3") @@
    ("rtaudio/rtaudio.h" :> "rtaudio") @@ ("raylib.h" :> "raylib")

\* "SDL2_" + inc[9:] without its extension
Sdl2Word(inc) ==
    LET word == Spell["SDL2_"] \o SubSeq(inc, 10, Len(inc))
    IN  TrimSuffix(word, Ext(word))

PkgNameFromInclude(inc) ==
    LET lower == ToLower(inc)
    IN  IF \E pattern \in DOMAIN Mappings : Spell[pattern] = lower
        THEN Spell[Mappings[CHOOSE pattern \in DOMAIN Mappings :
                                Spell[pattern] = lower]]
        ELSE IF HasPrefix(lower, Spell["sfml/"])
        THEN Spell["sfml-"] \o ToLower(TrimSuffix(Base(inc), Ext(inc)))
        ELSE IF HasPrefix(lower, Spell["sdl2/sdl_"]) THEN Sdl2Word(inc)
        ELSE IF HasPrefix(lower, Spell["glm/"]) THEN Spell["glm"]
        ELSE IF HasPrefix(inc, Spell["Q"]) THEN <<>>
        ELSE IF HasPrefix(lower, Spell["boost/"]) THEN <<>>
        ELSE IF Contains(inc, Spell["/"]) THEN FirstComponent(inc)
        ELSE <<>>

\* assembleFlags: the pkg-config pass over proj.Includes, one query for each
\* package name
RECURSIVE PkgConfigPass(_, _, _, _)
PkgConfigPass(st, seen, incs, e) ==
    IF Len(incs) = 0 THEN st
    ELSE LET pkgName == PkgNameFromInclude(Head(incs))
         IN  IF pkgName = <<>> \/ pkgName \in seen
             THEN PkgConfigPass(st, seen, Tail(incs), e)
             ELSE PkgConfigPass(MergeFlags(st, PkgConfigFlags(pkgName, e)),
                                seen \cup {pkgName}, Tail(incs), e)

\* one of the four library directories holds the shared object
LibPaths == {"/usr/lib", "/usr/lib/x86_64-linux-gnu", "/usr/local/lib", "/usr/pkg/lib"}

SharedObjectFound(so, e) ==
    \E libPath \in LibPaths : FileExistsAt(Spell[libPath] \o Spell["/"] \o Spell[so], e)

\* -I/usr/local/include -F/Library/Frameworks -framework <name>
FrameworkFlags(st, name) ==
    AddL(AddL(AddL(AddC(st, "-I/usr/local/include"), "-F/Library/Frameworks"),
              "-framework"), name)

\* if flags := pkgConfigFlags(pkg); flags != "" { mergeFlags(...) }
MergePkg(st, pkg, e) == MergeFlags(st, PkgConfigFlags(Spell[pkg], e))

ThreadRule(st, inc) ==
    IF inc \in {Spell["thread"], Spell["mutex"], Spell["future"],
                Spell["condition_variable"], Spell["pthread.h"], Spell["new"],
                Spell["dlfcn.h"]}
    THEN AddL(AddL(AddL(st, "-ldl"), "-pthread"), "-lpthread")
    ELSE st

SfmlRule(st, lower, w64, e) ==
    IF HasPrefix(lower, Spell["sfml/"])
    THEN LET s1 == IF FileExistsAt(Spell["/Library/Frameworks"], e) /\ ~w64
                   THEN FrameworkFlags(st, "OpenGL")
                   ELSE IF w64 THEN AddL(st, "-lopengl32") ELSE st
         IN  IF e.hasPkg THEN MergePkg(s1, "gl", e) ELSE s1
    ELSE st

OpenGLRule(st, lower, w64, e) ==
    IF \/ HasPrefix(lower, Spell["gl/"]) \/ HasPrefix(lower, Spell["opengl/"])
       \/ HasPrefix(lower, Spell["glut/"]) \/ HasPrefix(lower, Spell["glfw/"])
       \/ Contains(lower, Spell["opengl"])
    THEN IF FileExistsAt(Spell["/Library/Frameworks"], e) /\ ~w64
         THEN FrameworkFlags(st, "OpenGL")
         ELSE IF w64 THEN AddL(st, "-lopengl32")
         ELSE IF e.hasPkg THEN MergePkg(st, "gl", e)
         ELSE IF SharedObjectFound("libGL.so", e) THEN AddL(st, "-lGL")
         ELSE st
    ELSE st

GlutRule(st, lower, w64, e) ==
    IF \/ HasSuffix(lower, Spell["/glut.h"]) \/ HasSuffix(lower, Spell["/freeglut.h"])
       \/ HasPrefix(lower, Spell["glut/"])
    THEN IF FileExistsAt(Spell["/Library/Frameworks"], e) /\ ~w64
         THEN AddL(AddL(st, "-framework"), "GLUT")
         ELSE IF w64 THEN AddL(st, "-lglu32")
         ELSE IF e.hasPkg
         THEN IF PkgConfigFlags(Spell["glu"], e) # <<>> THEN MergePkg(st, "glu", e)
              ELSE MergePkg(st, "freeglut", e)
         ELSE IF SharedObjectFound("libglut.so", e) THEN AddL(st, "-lglut")
         ELSE st
    ELSE st

GlewRule(st, lower, w64, e) ==
    IF HasSuffix(lower, Spell["/glew.h"])
    THEN LET s1 == IF w64 THEN AddL(st, "-lglew32") ELSE st
         IN  IF e.hasPkg THEN MergePkg(s1, "glew", e) ELSE s1
    ELSE st

OpenALRule(st, lower, w64, e) ==
    IF \/ HasPrefix(lower, Spell["al/"]) \/ HasPrefix(lower, Spell["openal"])
       \/ Contains(lower, Spell["/al.h"])
    THEN IF FileExistsAt(Spell["/System/Library/Frameworks"], e) /\ ~w64
         THEN AddL(AddL(AddL(AddC(st,
                  "-I/System/Library/Frameworks/OpenAL.framework/Headers"),
                  "-F/System/Library/Frameworks"), "-framework"), "OpenAL")
         ELSE IF w64 THEN AddL(st, "-lopenal32")
         ELSE IF e.hasPkg THEN MergePkg(st, "openal", e)
         ELSE IF SharedObjectFound("libopenal.so", e) THEN AddL(st, "-lopenal")
         ELSE st
    ELSE st

GtkRule(st, lower) ==
    IF lower = Spell["gtk/gtk.h"] THEN AddL(st, "-Wl,-export-dynamic") ELSE st

Sdl2SubRule(st, inc, lower, e) ==
    IF HasPrefix(lower, Spell["sdl2/sdl_"]) /\ e.hasPkg
    THEN MergeFlags(st, PkgConfigFlags(Sdl2Word(inc), e))
    ELSE st

VulkanRule(st, lower, e) ==
    IF HasPrefix(lower, Spell["vulkan/"])
    THEN IF e.hasPkg THEN MergePkg(st, "vulkan", e) ELSE AddL(st, "-lvulkan")
    ELSE st

\* the loop over systemIncludeDirs() that adds -I<dir>/qt
RECURSIVE QtDirs(_, _, _)
QtDirs(st, dirs, e) ==
    IF Len(dirs) = 0 THEN st
    ELSE LET qtDir == Head(dirs) \o Spell["/qt"]
         IN  QtDirs(IF FileExistsAt(qtDir, e)
                    THEN [st EXCEPT !.c = AppendUnique(@, Spell["-I"] \o qtDir)]
                    ELSE st,
                    Tail(dirs), e)

QtRule(st, inc, e) ==
    IF HasPrefix(inc, Spell["Q"])
    THEN QtDirs(AddC(AddC(st, "-Wno-class-memaccess"), "-Wno-pedantic"),
                SystemIncludeDirs(e), e)
    ELSE st

GlmRule(st, lower) ==
    IF HasPrefix(lower, Spell["glm/"]) THEN AddC(st, "-Wno-shadow") ELSE st

FrameworkRule(st, inc, lower, w64, e) ==
    IF e.goos = "darwin" /\ FileExistsAt(Spell["/Library/Frameworks"], e) /\ ~w64
    THEN LET firstWord == IF Contains(inc, Spell["/"]) THEN FirstComponent(lower)
                          ELSE lower
             frameworkPath == Spell["/Library/Frameworks/"] \o firstWord
                              \o Spell[".framework"]
         IN  IF FileExistsAt(frameworkPath, e)
             THEN [AddL(AddL(AddC(st, "-I/usr/local/include"),
                             "-F/Library/Frameworks"), "-framework")
                     EXCEPT !.l = AppendUnique(@, firstWord)]
             ELSE st
    ELSE st

\* the body of the loop of resolveExtraFlags for one include
ExtraFlagsFor(st, inc, w64, e) ==
    LET lower == ToLower(inc)
        s1 == ThreadRule(st, inc)
        s2 == SfmlRule(s1, lower, w64, e)
        s3 == OpenGLRule(s2, lower, w64, e)
        s4 == GlutRule(s3, lower, w64, e)
        s5 == GlewRule(s4, lower, w64, e)
        s6 == OpenALRule(s5, lower, w64, e)
        s7 == GtkRule(s6, lower)
        s8 == Sdl2SubRule(s7, inc, lower, e)
        s9 == VulkanRule(s8, lower, e)
        s10 == QtRule(s9, inc, e)
        s11 == GlmRule(s10, lower)
    IN  FrameworkRule(s11, inc, lower, w64, e)

RECURSIVE ExtraFlagsLoop(_, _, _, _)
ExtraFlagsLoop(st, incs, w64, e) ==
    IF Len(incs) = 0 THEN st
    ELSE ExtraFlagsLoop(ExtraFlagsFor(st, Head(incs), w64, e), Tail(incs), w64, e)

ResolveExtraFlags(incs, w64, e) == ExtraFlagsLoop(NoExtra, incs, w64, e)

\* the inner loop of pcFilesToFlags: a token is kept the first time it is seen
RECURSIVE AppendUnseen(_, _)
AppendUnseen(allFlags, tokens) ==
    IF Len(tokens) = 0 THEN allFlags
    ELSE AppendUnseen(AppendUnique(allFlags, Head(tokens)), Tail(tokens))

RECURSIVE PcFilesLoop(_, _, _)
PcFilesLoop(allFlags, pcFiles, e) ==
    IF Len(pcFiles) = 0 THEN allFlags
    ELSE LET pcName == TrimSuffix(Base(Head(pcFiles)), Spell[".pc"])
             out == PkgConfigFlags(pcName, e)
             flagString ==
                 IF out = <<>> /\ pcName \notin {Spell["glm"], Spell["libglvnd"],
                                                 Spell["RapidJSON"]}
                 THEN Spell["-l"] \o pcName
                 ELSE out
         IN  PcFilesLoop(AppendUnseen(allFlags, FlagFields(flagString)),
                         Tail(pcFiles), e)

PcFilesToFlags(pcFiles, e) == JoinFlags(PcFilesLoop(<<>>, pcFiles, e))

\* platformResolve for the path of header h.  pass "direct" is the call on
\* filepath.Join(sysDir, h), pass "find" the call on the path findIncludeFile
\* returned; the search also finds a file that sits directly under sysDir.
\* The owning package and its .pc files are the package manager's answer.
PlatformResolve(h, pass, e) ==
    IF e.pm[h] = "direct" \/ (pass = "find" /\ e.pm[h] = "find")
    THEN PcFilesToFlags([k \in 1..Len(PcFilesOf[h]) |-> Spell[PcFilesOf[h][k]]], e)
    ELSE <<>>

NoResolution == [c |-> <<>>, l |-> <<>>, resolved |-> {}, asked |-> <<>>]

\* The loop of resolveIncludesViaPackageManager.  r.resolved is the map
\* resolved, r.asked lists the headers platformResolve was called for.  The
\* system include directories stand for one place to look in: a header the
\* package manager knows is under one of them.
RECURSIVE PackageManagerLoop(_, _, _, _)
PackageManagerLoop(r, incs, systemIncDirs, e) ==
    IF Len(incs) = 0 THEN r
    ELSE LET inc == Head(incs)
             direct == IF Len(systemIncDirs) = 0 THEN <<>>
                       ELSE PlatformResolve(inc, "direct", e)
             deep == IF direct # <<>> \/ Len(systemIncDirs) = 0 THEN <<>>
                     ELSE PlatformResolve(inc, "find", e)
             flagString == IF direct # <<>> THEN direct ELSE deep
             merged == MergeFlags([c |-> r.c, l |-> r.l], flagString)
         IN  IF inc \in r.resolved
             THEN PackageManagerLoop(r, Tail(incs), systemIncDirs, e)
             ELSE PackageManagerLoop(
                      [c |-> merged.c, l |-> merged.l,
                       resolved |-> IF flagString # <<>>
                                    THEN r.resolved \cup {inc} ELSE r.resolved,
                       asked |-> IF Len(systemIncDirs) = 0 THEN r.asked
                                 ELSE Append(r.asked, inc)],
                      Tail(incs), systemIncDirs, e)

ResolveIncludesViaPackageManager(incs, systemIncDirs, e) ==
    IF ~e.hasPkg THEN NoResolution
    ELSE PackageManagerLoop(NoResolution, incs, systemIncDirs, e)

\* the spellings of a list of strings
SpellAll(list) == [k \in 1..Len(list) |-> Spell[list[k]]]

IncludeLists ==
    {s \in UNION {[1..n -> FlagHeaders] : n \in 0..MaxIncludes} :
        \A i, j \in 1..Len(s) : i # j => s[i] # s[j]}

\* A detected project with its external includes, on any machine; the
\* package manager is described for the headers of the project only.
InitFlags ==
    /\ \E s \in IncludeLists :
         /\ proj = [detected |-> TRUE, cpp |-> <<>>, Includes |-> s]
         /\ \E host \in Hosts :
              env \in {e \in [hasPkg : BOOLEAN, installed : SUBSET PcPackages,
                              goos : {host.goos}, paths : {host.paths},
                              pm : [FlagHeaders -> {"none", "direct", "find"}],
                              environ : {NoEnv.environ}] :
                          \A h \in FlagHeaders :
                              ~InSeq(s, h) => e.pm[h] = "none"}
    /\ win64 \in BOOLEAN
    /\ asm = NoAssembly
    /\ opts = NoOptions
    /\ feat = NoFeatures
    /\ MergeIdle
    /\ MainIdle
    /\ ToolIdle
    /\ tree = <<>>
    /\ localFiles = {}
    /\ nr = NoCall
    /\ BuildIdle

\* ------------------------------------------------------------------------
\* assembleFlags: the flags that depend on the build options, the project
\* features and the host, before and after the external includes
\* ------------------------------------------------------------------------
AllOptions ==
    [Debug : BOOLEAN, Opt : BOOLEAN, Strict : BOOLEAN, Sloppy : BOOLEAN,
     Small : BOOLEAN, Tiny : BOOLEAN, Clang : BOOLEAN, Zap : BOOLEAN,
     Win64 : BOOLEAN, NoSanitizers : BOOLEAN, ProfileGenerate : BOOLEAN,
     ProfileUse : BOOLEAN]

\* every combination of the options; a profile is generated or used, not both
BuildOptions == {o \in AllOptions : ~(o.ProfileGenerate /\ o.ProfileUse)}

\* The feature fields of Project: a plain C++ program, a C program, and a
\* C++ program with OpenMP pragmas that uses Boost, threads, dlopen, the
\* math library, <filesystem>, Qt6 and GLFW with Vulkan.
ProjectKinds ==
    {NoFeatures,
     [NoFeatures EXCEPT !.IsC = TRUE],
     [NoFeatures EXCEPT !.HasOpenMP = TRUE, !.HasBoost = TRUE,
                        !.BoostLibs = <<"boost_filesystem">>,
                        !.HasThreads = TRUE, !.HasDlopen = TRUE,
                        !.HasMathLib = TRUE, !.HasFS = TRUE, !.HasQt6 = TRUE,
                        !.HasGLFWVulkan = TRUE]}

\* exec.LookPath: every compiler the code asks for is installed in /usr/bin
LookPath(name) == Spell["/usr/bin/"] \o Spell[name]

\* assembleFlags, "Find the compiler", with findWin64Compiler and
\* findCompiler; CC and CXX are not set
FindCompiler(o, f, w64) ==
    IF o.Zap THEN LookPath("zapcc++")
    ELSE IF w64
    THEN LookPath(IF f.IsC THEN "x86_64-w64-mingw32-gcc"
                  ELSE "x86_64-w64-mingw32-g++")
    ELSE IF o.Clang THEN LookPath(IF f.IsC THEN "clang" ELSE "clang++")
    ELSE LookPath(IF f.IsC THEN "gcc" ELSE "g++")

\* strings.Index(s, needle) + 1, 0 when needle is not in s
IndexOfSub(s, needle) ==
    IF Contains(s, needle)
    THEN CHOOSE k \in 1..(Len(s) - Len(needle) + 1) :
             /\ SubSeq(s, k, k + Len(needle) - 1) = needle
             /\ \A j \in 1..(k - 1) : SubSeq(s, j, j + Len(needle) - 1) # needle
    ELSE 0

IsLetter(b) == b \in DOMAIN LowerOf \/ b \in {LowerOf[u] : u \in DOMAIN LowerOf}

IsCompilerGCC(compiler) ==
    \E needle \in {Spell["g++"], Spell["gcc"]} :
        LET at == IndexOfSub(Base(compiler), needle)
        IN  at > 0 /\ (at = 1 \/ ~IsLetter(Base(compiler)[at - 1]))

IsCompilerClang(compiler) == Contains(Base(compiler), Spell["clang"])

\* "Determine standard"; bestStdFlag finds c++20 accepted by the compiler
StdFor(o, f, w64) ==
    IF f.IsC THEN (IF w64 THEN "c11" ELSE "c18")
    ELSE IF o.Zap THEN "c++14"
    ELSE "c++20"

\* "Optimization flags" with tiers that add up instead of excluding each other
OptimizationFlagsAddUp(o, f, e, compiler) ==
    [c |-> (IF o.Debug THEN SpellAll(<<"-O0", "-g", "-fno-omit-frame-pointer">>)
            ELSE <<>>)
           \o (IF o.Small THEN <<Spell["-Os"]>> ELSE <<>>)
           \o (IF o.Opt THEN <<Spell["-Ofast"]>> ELSE <<>>)
           \o (IF ~o.Debug /\ ~o.Small /\ ~o.Opt
               THEN <<Spell[IF f.HasOpenMP THEN "-O3" ELSE "-O2"]>> ELSE <<>>),
     l |-> IF o.Debug /\ ~o.NoSanitizers THEN <<Spell["-fsanitize=address"]>>
           ELSE <<>>]

\* "Optimization flags" of a Debug build that does not look at NoSanitizers
OptimizationFlagsAlwaysSanitize(o, f, e, compiler) ==
    IF o.Debug
    THEN [c |-> SpellAll(<<"-O0", "-g", "-fno-omit-frame-pointer">>),
          l |-> <<Spell["-fsanitize=address"]>>]
    ELSE [c |-> <<Spell["-O2"]>>, l |-> <<>>]

\* "Optimization flags": the first tier that matches
OptimizationFlags(o, f, e, compiler) ==
    IF o.Debug
    THEN [c |-> SpellAll(<<"-O0", "-g", "-fno-omit-frame-pointer">>)
                \o (IF o.NoSanitizers \/ e.goos = "darwin" THEN <<>>
                    ELSE IF IsCompilerClang(compiler) THEN <<Spell["-static-libsan"]>>
                    ELSE IF IsCompilerGCC(compiler) THEN <<Spell["-static-libasan"]>>
                    ELSE <<>>),
          l |-> IF o.NoSanitizers THEN <<>> ELSE <<Spell["-fsanitize=address"]>>]
    ELSE IF o.Small
    THEN [c |-> SpellAll(<<"-Os", "-ffunction-sections", "-fdata-sections">>)
                \o (IF o.Tiny
                    THEN SpellAll(<<"-s", "-nostdlib", "-fno-rtti", "-fno-ident",
                                    "-fomit-frame-pointer">>)
                    ELSE <<>>),
          l |-> SpellAll(<<"-ffunction-sections", "-fdata-sections", "-Wl,-s",
                           "-Wl,-gc-sections">>)
                \o (IF o.Tiny THEN <<Spell["-Wl,-z,norelro"]>> ELSE <<>>)]
    ELSE IF o.Opt
    THEN [c |-> SpellAll(<<"-Ofast", "-flto">>), l |-> <<Spell["-Wl,-flto"]>>]
    ELSE IF f.HasOpenMP THEN [c |-> <<Spell["-O3"]>>, l |-> <<>>]
    ELSE [c |-> <<Spell["-O2"]>>, l |-> <<>>]

\* "Common flags" that leave -fPIC out only when the Small tier was taken
CommonFlagsPICWhenDebug(o) ==
    <<Spell["-pipe"]>>
    \o (IF o.Small /\ ~o.Debug THEN <<>> ELSE <<Spell["-fPIC"]>>)

\* "Common flags": -pipe, and -fPIC unless Small
CommonFlags(o) ==
    <<Spell["-pipe"]>> \o (IF o.Small THEN <<>> ELSE <<Spell["-fPIC"]>>)

\* "Linux hardening" that forgets the Debug test
HardeningFlagsInDebug(o, w64, e) ==
    IF e.goos = "linux" /\ ~w64 /\ ~o.Sloppy /\ ~o.Zap /\ ~o.Small
    THEN SpellAll(<<"-fno-plt", "-fstack-protector-strong">>)
    ELSE <<>>

\* "Linux hardening"
HardeningFlags(o, w64, e) ==
    IF e.goos = "linux" /\ ~w64 /\ ~o.Sloppy /\ ~o.Zap /\ ~o.Small /\ ~o.Debug
    THEN SpellAll(<<"-fno-plt", "-fstack-protector-strong">>)
    ELSE <<>>

\* "Warning flags" with Strict's set added under Sloppy too
WarningFlagsStrictOnTop(o) ==
    (IF o.Sloppy THEN SpellAll(<<"-fpermissive", "-fms-extensions", "-w">>)
     ELSE SpellAll(<<"-Wall", "-Wshadow", "-Wpedantic", "-Wno-parentheses",
                     "-Wfatal-errors", "-Wvla", "-Wignored-qualifiers">>))
    \o (IF o.Strict
        THEN SpellAll(<<"-Wextra", "-Wconversion", "-Wparentheses", "-Weffc++",
                        "-Wunused-function">>)
        ELSE <<>>)

\* "Warning flags"
WarningFlags(o) ==
    IF o.Sloppy THEN SpellAll(<<"-fpermissive", "-fms-extensions", "-w">>)
    ELSE SpellAll(<<"-Wall", "-Wshadow", "-Wpedantic", "-Wno-parentheses",
                    "-Wfatal-errors", "-Wvla", "-Wignored-qualifiers">>)
         \o (IF o.Strict
             THEN SpellAll(<<"-Wextra", "-Wconversion", "-Wparentheses",
                             "-Weffc++", "-Wunused-function">>)
             ELSE <<>>)

\* "Include paths": the local include directories that exist, in the order
\* of localIncludePaths; the directory itself and its parent always exist
LocalIncPaths(e) ==
    SelectSeq(LocalIncludePaths, LAMBDA ip : ip \in {".", ".."} \/ ip \in e.paths)

\* dirDefines: dirTypes, and the define of one directory that exists here
\* or in the parent directory
DirTypes ==
    ("img" :> "IMGDIR") @@ ("data" :> "DATADIR") @@ ("shaders" :> "SHADERDIR") @@
    ("shader" :> "SHADERDIR") @@ ("share" :> "SHAREDIR") @@
    ("resources" :> "RESOURCEDIR") @@ ("resource" :> "RESOURCEDIR") @@
    ("res" :> "RESDIR") @@ ("scripts" :> "SCRIPTDIR")

DirDefine(dir, e) ==
    LET path == IF FileExistsAt(Spell[dir], e) THEN Spell[dir] \o Spell["/"]
                ELSE Spell["../"] \o Spell[dir] \o Spell["/"]
    IN  Spell["-D"] \o Spell[DirTypes[dir]] \o <<"=", "\"">> \o path \o <<"\"">>

\* dirDefines ranges over a Go map: the defines come in any order
DirDefines(e) ==
    LET dirs == {dir \in DOMAIN DirTypes :
                    \/ FileExistsAt(Spell[dir], e)
                    \/ FileExistsAt(Spell["../"] \o Spell[dir], e)}
    IN  {[k \in 1..Cardinality(dirs) |-> DirDefine(order[k], e)] :
            order \in {s \in [1..Cardinality(dirs) -> dirs] :
                          \A i, j \in 1..Cardinality(dirs) : i # j => s[i] # s[j]}}

\* the first flags of qt6CxxFlags and of qt6LinkFlags stand for the lists
Qt6CxxFlags == Spell["-I/usr/include/qt6 -I/usr/include/qt6/Qt3DAnimation"]
Qt6LinkFlags == Spell["-lQt6Concurrent -lQt6Core"]

\* "C-specific defines"
CDefines(f, e) ==
    IF ~f.IsC THEN <<>>
    ELSE IF e.goos = "linux" THEN <<Spell["-D_GNU_SOURCE"]>>
    ELSE IF e.goos \in {"freebsd", "openbsd", "netbsd"} THEN <<Spell["-D_BSD_SOURCE"]>>
    ELSE <<Spell["-D_XOPEN_SOURCE=700"]>>

\* "Boost": the boost libraries, and boost_system last when it is installed
RECURSIVE BoostLibFlags(_, _)
BoostLibFlags(l, libs) ==
    IF Len(libs) = 0 THEN l
    ELSE BoostLibFlags(AppendUnique(l, Spell["-l"] \o Spell[Head(libs)]), Tail(libs))

BoostFlags(st, f, e) ==
    IF ~f.HasBoost THEN st
    ELSE LET l1 == BoostLibFlags(st.l \o SpellAll(<<"-pthread", "-lpthread">>),
                                 f.BoostLibs)
             hasBoostLib == \E k \in 1..Len(f.BoostLibs) :
                                HasPrefix(Spell[f.BoostLibs[k]], Spell["boost_"])
         IN  [c |-> Append(st.c, Spell["-Wno-unknown-pragmas"]),
              l |-> IF hasBoostLib /\ "/usr/lib/libboost_system.so" \in e.paths
                    THEN AppendUnique(l1, Spell["-lboost_system"])
                    ELSE l1]

\* "Profile-guided optimization": the flags added to both lists
ProfileFlags(o, e, compiler) ==
    LET use == IF IsCompilerGCC(compiler)
               THEN SpellAll(<<"-fprofile-use", "-fprofile-correction">>)
               ELSE IF IsCompilerClang(compiler) THEN <<Spell["-fprofile-use"]>>
               ELSE <<>>
    IN  IF o.ProfileGenerate
        THEN IF IsCompilerGCC(compiler)
             THEN SpellAll(<<"-coverage", "-fprofile-generate",
                             "-fprofile-correction">>)
             ELSE IF IsCompilerClang(compiler) THEN <<Spell["-fprofile-generate"]>>
             ELSE <<>>
        ELSE IF o.ProfileUse THEN use
        ELSE IF "main.gcda" \in e.paths THEN use
        ELSE <<>>

\* "OpenMP"
OpenMPFlags(st, f) ==
    IF f.HasOpenMP
    THEN [c |-> Append(st.c, Spell["-fopenmp"]),
          l |-> st.l \o SpellAll(<<"-fopenmp", "-pthread", "-lpthread">>)]
    ELSE st

\* "Threads", "dlopen", "Math library", "Filesystem", "GLFW + Vulkan": one
\* library through appendUnique when the feature was detected
LinkWhen(st, detected, name) == IF detected THEN AddL(st, name) ELSE st

\* "Qt6"
Qt6Flags(st, f) ==
    IF f.HasQt6
    THEN [c |-> AppendUnseen(st.c, FlagFields(Qt6CxxFlags)),
          l |-> AppendUnseen(st.l, FlagFields(Qt6LinkFlags))]
    ELSE st

\* the profile flags go to both lists
WithProfile(st, profile) == [c |-> st.c \o profile, l |-> st.l \o profile]

\* "Win64 specific flags"
Win64Flags(st, f, w64) ==
    IF ~w64 THEN st
    ELSE AddL([c |-> Append(st.c, Spell["-Wno-unused-variable"])
                     \o (IF f.IsC THEN <<>>
                         ELSE SpellAll(<<"-mwindows", "-fms-extensions">>)),
               l |-> st.l \o (IF f.IsC THEN <<>>
                              ELSE SpellAll(<<"-mwindows", "-fms-extensions">>))],
              "-lm")

\* From "OpenMP" to "Win64 specific flags": the per-feature flags, in the
\* order of the code
FeatureFlags(st, o, f, w64, e, compiler) ==
    Win64Flags(
        WithProfile(
            LinkWhen(
                Qt6Flags(
                    LinkWhen(
                        LinkWhen(
                            LinkWhen(
                                LinkWhen(BoostFlags(OpenMPFlags(st, f), f, e),
                                         f.HasThreads, "-lpthread"),
                                f.HasDlopen, "-ldl"),
                            f.HasMathLib, "-lm"),
                        f.HasFS /\ e.goos = "linux", "-lstdc++fs"),
                    f),
                f.HasGLFWVulkan, "-lvulkan"),
            ProfileFlags(o, e, compiler)),
        f, w64)

\* "lib/ directory", "NetBSD", "OpenBSD": the library directories
LibDirFlags(l, e) ==
    l \o (IF "lib" \in e.paths
          THEN SpellAll(<<"-Llib", "-Wl,-rpath", "./lib">>)
               \o (IF "lib/libfoo.so" \in e.paths
                   THEN <<Spell["-l"] \o Spell["foo"]>> ELSE <<>>)
          ELSE <<>>)
      \o (IF e.goos = "netbsd" THEN <<Spell["-L/usr/pkg/lib"]>> ELSE <<>>)
      \o (IF e.goos = "openbsd" THEN <<Spell["-L/usr/local/lib"]>> ELSE <<>>)

\* "--as-needed" when there are link flags
AsNeeded(l, e) ==
    IF Len(l) = 0 THEN l
    ELSE IF e.goos \in {"solaris", "illumos"}
    THEN AppendUnique(l, Spell["-Wl,-zignore"])
    ELSE IF e.goos # "darwin" THEN AppendUnique(l, Spell["-Wl,--as-needed"])
    ELSE l

\* From "lib/ directory" to "--as-needed": the end of the link flags
FinishLDFlags(l, e) == AsNeeded(LibDirFlags(l, e), e)

\* "Append user CXXFLAGS from environment"
UserCFlags(e) == FlagFields(e.environ["CXXFLAGS"])

\* win64 := opts.Win64 || proj.HasWin64
Win64Target == opts.Win64 \/ win64

\* assembleFlags: the compiler, the standard and the flags of the options
\* and features; then the resolution of the external includes (the
\* pkg-config pass, resolveExtraFlags and resolveIncludesViaPackageManager,
\* each over the whole of proj.Includes); then the end of the link flags
\* and the tokens of CXXFLAGS.
AssembleFlags ==
    /\ proj.detected
    /\ ~asm.done
    /\ \E defines \in DirDefines(env),
          compiler \in {FindCompiler(opts, feat, Win64Target)} :
         \E tier \in {OptimizationFlags(opts, feat, env, compiler)} :
           \E before \in {FeatureFlags(
                              [c |-> tier.c \o CommonFlags(opts)
                                     \o HardeningFlags(opts, Win64Target, env)
                                     \o WarningFlags(opts),
                               l |-> tier.l],
                              opts, feat, Win64Target, env, compiler)} :
             \E pkg \in {IF env.hasPkg
                         THEN PkgConfigPass(before, {}, SpellAll(proj.Includes), env)
                         ELSE before},
                extra \in {ResolveExtraFlags(SpellAll(proj.Includes),
                                             Win64Target, env)},
                pm \in {ResolveIncludesViaPackageManager(
                            proj.Includes, SystemIncludeDirs(env), env)} :
               asm' = [done |-> TRUE,
                       Compiler |-> compiler,
                       Std |-> StdFor(opts, feat, Win64Target),
                       CFlags |-> pkg.c \o extra.c \o pm.c \o UserCFlags(env),
                       LDFlags |-> FinishLDFlags(pkg.l \o extra.l \o pm.l, env),
                       Defines |-> defines \o CDefines(feat, env),
                       IncPaths |-> LocalIncPaths(env)
                                    \o (IF Win64Target
                                           /\ "/usr/x86_64-w64-mingw32/include" \in env.paths
                                        THEN <<"/usr/x86_64-w64-mingw32/include">>
                                        ELSE <<>>),
                       own |-> before,
                       asked |-> pm.asked,
                       resolved |-> pm.resolved]
    /\ UNCHANGED <<buildVars, nr, scanVars, env, opts, feat, mergeVars, mainVars, toolVars>>

NextFlags == AssembleFlags

SpecFlags == InitFlags /\ [][NextFlags]_vars

\* The machines the option-dependent flags are assembled on: a Linux host
\* with pkg-config, SDL2, local include/, img/, shaders/ and lib/
\* directories, and a macOS host with none of them.  CXXFLAGS, CFLAGS and
\* LDFLAGS are unset or set.  A project that includes windows.h is a plain
\* C++ program.
OptionHosts ==
    {[NoEnv EXCEPT !.hasPkg = TRUE, !.installed = {"sdl2"},
                   !.paths = {"/usr/include", "include", "img", "shaders",
                              "lib", "lib/libfoo.so"}],
     [NoEnv EXCEPT !.goos = "darwin"]}

UserEnvironments ==
    {[v \in EnvVars |-> <<>>],
     ("CXXFLAGS" :> Spell["-DTEST_FLAG -O3 -Wall -fPIC -fno-plt"]) @@
     ("CFLAGS" :> Spell["-DTEST_CFLAG -march=native"]) @@
     ("LDFLAGS" :> Spell["-Wl,-z,relro,-z,now"])}

InitOptions ==
    /\ opts \in BuildOptions
    /\ feat \in ProjectKinds
    /\ win64 \in BOOLEAN
    /\ win64 => feat = NoFeatures
    /\ \E host \in OptionHosts, environ \in UserEnvironments :
         /\ env = [host EXCEPT !.environ = environ]
         /\ proj = [detected |-> TRUE, cpp |-> <<>>,
                    Includes |-> IF host.hasPkg THEN <<"SDL2/SDL.h">> ELSE <<>>]
    /\ asm = NoAssembly
    /\ MergeIdle
    /\ MainIdle
    /\ ToolIdle
    /\ tree = <<>>
    /\ localFiles = {}
    /\ nr = NoCall
    /\ BuildIdle

SpecOptions == InitOptions /\ [][NextFlags]_vars

\* Header h got a non-empty result before the package-manager pass: from the
\* static table with its pkg-config query, or from a special-case rule.
ResolvedByEarlierTier(h) ==
    LET pkgName == PkgNameFromInclude(Spell[h])
    IN  \/ env.hasPkg /\ pkgName # <<>> /\ PkgConfigFlags(pkgName, env) # <<>>
        \/ ResolveExtraFlags(<<Spell[h]>>, Win64Target, env) # NoExtra

\* C10: a header for which the static table with its pkg-config query, or a
\* special-case rule, produced a non-empty result is not passed to platform
\* package-manager resolution and gets no package-manager-derived flags.
C10_ResolvedHeadersSkipPackageManager ==
    asm.done =>
        \A k \in 1..Len(proj.Includes) :
            ResolvedByEarlierTier(proj.Includes[k]) =>
                /\ ~InSeq(asm.asked, proj.Includes[k])
                /\ proj.Includes[k] \notin asm.resolved

\* ------------------------------------------------------------------------
\* mergeFlags on its own: any short flag string merged into short lists,
\* once and then once more
\* ------------------------------------------------------------------------
FlagAlphabet == {"-", "l", "L", "W", ",", "D", " "}

FlagStrings == UNION {[1..n -> FlagAlphabet] : n \in 0..MaxFlagLen}

\* the lists mergeFlags is handed
StartCFlags == {<<>>, <<Spell["D"]>>, <<Spell["D"], Spell["-D"], Spell["D"]>>}
StartLDFlags == {<<>>, <<Spell["-l"]>>}

InitMerge ==
    /\ \E c0 \in StartCFlags, l0 \in StartLDFlags, s \in FlagStrings :
         mf = [calls |-> 0, flagString |-> s, c0 |-> c0, l0 |-> l0,
               c |-> c0, l |-> l0, c1 |-> c0, l1 |-> l0]
    /\ FlagsIdle
    /\ ScanIdle
    /\ MainIdle
    /\ ToolIdle
    /\ nr = NoCall
    /\ BuildIdle

\* cflags, ldflags = mergeFlags(cflags, ldflags, flags); c1 and l1 keep the
\* lists the first call returned
CallMergeFlags ==
    /\ mf.calls < 2
    /\ LET merged == MergeFlags([c |-> mf.c, l |-> mf.l], mf.flagString)
       IN  mf' = [mf EXCEPT !.calls = @ + 1, !.c = merged.c, !.l = merged.l,
                            !.c1 = IF mf.calls = 0 THEN merged.c ELSE @,
                            !.l1 = IF mf.calls = 0 THEN merged.l ELSE @]
    /\ UNCHANGED <<buildVars, nr, scanVars, flagVars, mainVars, toolVars>>

NextMerge == CallMergeFlags

SpecMerge == InitMerge /\ [][NextMerge]_vars

\* The whitespace-separated tokens of s, as the pairs of their first and
\* last position: maximal runs of characters that are not spaces.
TokenSpans(s) ==
    {sp \in (1..Len(s)) \X (1..Len(s)) :
        /\ sp[1] <= sp[2]
        /\ \A k \in sp[1]..sp[2] : s[k] # " "
        /\ (sp[1] = 1 \/ s[sp[1] - 1] = " ")
        /\ (sp[2] = Len(s) \/ s[sp[2] + 1] = " ")}

StartsWith(t, a, b) == Len(t) >= 2 /\ t[1] = a /\ t[2] = b

GoesToLinkFlags(t) ==
    \/ StartsWith(t, "-", "l")
    \/ StartsWith(t, "-", "L")
    \/ (Len(t) >= 4 /\ StartsWith(t, "-", "W") /\ t[3] = "l" /\ t[4] = ",")

\* list = start followed by the tokens of s that belong to this list and are
\* not in start, each once, in the order of their first occurrence in s
MergedInto(list, start, s, toLink) ==
    LET mine == {sp \in TokenSpans(s) :
                    GoesToLinkFlags(SubSeq(s, sp[1], sp[2])) = toLink}
        tok(sp) == SubSeq(s, sp[1], sp[2])
        first == {sp \in mine :
                     /\ \A k \in 1..Len(start) : start[k] # tok(sp)
                     /\ \A other \in mine :
                            tok(other) = tok(sp) => other[1] >= sp[1]}
    IN  /\ Len(list) = Len(start) + Cardinality(first)
        /\ SubSeq(list, 1, Len(start)) = start
        /\ \A sp \in first :
               list[Len(start) + 1
                    + Cardinality({o \in first : o[1] < sp[1]})] = tok(sp)

\* C11: mergeFlags adds each whitespace-separated token to the link flags
\* when it starts with -l, -L or -Wl, and to the compile flags otherwise; a
\* token already in its list is not added again, existing entries keep their
\* positions, new tokens are appended in first-seen order, and merging the
\* same flag string a second time changes nothing.
C11_MergeFlagsIdempotentOrdered ==
    mf.calls >= 1 =>
        /\ MergedInto(mf.c1, mf.c0, mf.flagString, FALSE)
        /\ MergedInto(mf.l1, mf.l0, mf.flagString, TRUE)
        /\ mf.calls = 2 => (mf.c = mf.c1 /\ mf.l = mf.l1)

\* "D -L" merged twice into lists that already hold D and -l: D is not
\* added again, -L is appended to the link flags once.
C11_Witness ==
    /\ mf.calls = 2
    /\ mf.flagString = <<"D", " ", "-", "L">>
    /\ mf.c0 = <<Spell["D"]>>
    /\ mf.l0 = <<Spell["-l"]>>
    /\ mf.c = <<Spell["D"]>>
    /\ mf.l = <<Spell["-l"], <<"-", "L">>>>

\* the compile flags in place before the tokens of CXXFLAGS are appended
BeforeOverrides ==
    SubSeq(asm.CFlags, 1,
           Len(asm.CFlags) - Len(FlagFields(env.environ["CXXFLAGS"])))

Has(list, flag) == InSeq(list, Spell[flag])

HasAny(list, names) == \E flag \in names : Has(list, flag)

HasAll(list, names) == \A flag \in names : Has(list, flag)

OptLevels == {"-O0", "-Os", "-Ofast", "-O3", "-O2"}

\* C12: for every combination of build options and project features, the
\* compile flags assembled before the environment overrides contain exactly
\* one optimisation level among -O0, -Os, -Ofast, -O3 and -O2: that of the
\* first rule that matches in the order Debug, Small, Opt, OpenMP, default.
C12_OneOptimisationLevel ==
    asm.done =>
        \E before \in {BeforeOverrides} :
            /\ Cardinality({k \in 1..Len(before) :
                               \E level \in OptLevels :
                                   before[k] = Spell[level]}) = 1
            /\ Has(before,
                   IF opts.Debug THEN "-O0"
                   ELSE IF opts.Small THEN "-Os"
                   ELSE IF opts.Opt THEN "-Ofast"
                   ELSE IF feat.HasOpenMP THEN "-O3"
                   ELSE "-O2")

\* Debug, Small and Opt are all set for an OpenMP project and CXXFLAGS names
\* a level of its own: -O0 is the level of the assembler.
C12_Witness ==
    /\ asm.done
    /\ opts.Debug /\ opts.Small /\ opts.Opt /\ feat.HasOpenMP
    /\ Has(FlagFields(env.environ["CXXFLAGS"]), "-O3")
    /\ Has(BeforeOverrides, "-O0")

\* C13: whenever Debug is set the compile flags contain -O0 and the link
\* flags contain -fsanitize=address exactly when NoSanitizers is not set;
\* when Debug is not set -fsanitize=address is not in the link flags.
C13_DebugSanitizer ==
    asm.done =>
        /\ opts.Debug =>
              /\ Has(asm.CFlags, "-O0")
              /\ Has(asm.LDFlags, "-fsanitize=address") <=> ~opts.NoSanitizers
        /\ ~opts.Debug => ~Has(asm.LDFlags, "-fsanitize=address")

\* a Debug build with NoSanitizers, Small and Opt set
C13_Witness ==
    /\ asm.done
    /\ opts.Debug /\ opts.NoSanitizers /\ opts.Small /\ opts.Opt
    /\ ~Has(asm.LDFlags, "-fsanitize=address")

\* C14 as stated: -pipe is in the compile flags, and -fPIC is in the compile
\* flags if and only if Small is not set.
C14_PipeAndPIC ==
    asm.done =>
        /\ Has(asm.CFlags, "-pipe")
        /\ Has(asm.CFlags, "-fPIC") <=> ~opts.Small

\* C14: -pipe is in the compile flags, and -fPIC is among the flags the
\* assembler puts in place before it resolves the external includes and
\* appends the tokens of CXXFLAGS if and only if Small is not set, also when
\* Debug is set with Small.
C14_PipeAndOwnPIC ==
    asm.done =>
        /\ Has(asm.CFlags, "-pipe")
        /\ Has(asm.own.c, "-fPIC") <=> ~opts.Small
        /\ ~opts.Small => Has(asm.CFlags, "-fPIC")

\* Small with Debug: the Debug tier wins, -fPIC is left out all the same
C14_Witness ==
    /\ asm.done
    /\ opts.Small /\ opts.Debug
    /\ Has(asm.own.c, "-O0")
    /\ ~Has(asm.own.c, "-fPIC")

SloppyFlags == {"-fpermissive", "-fms-extensions", "-w"}

DefaultWarnings ==
    {"-Wall", "-Wshadow", "-Wpedantic", "-Wno-parentheses", "-Wfatal-errors",
     "-Wvla", "-Wignored-qualifiers"}

StrictWarnings ==
    {"-Wextra", "-Wconversion", "-Wparentheses", "-Weffc++", "-Wunused-function"}

\* Sloppy replaces the warnings, otherwise the default set is there and
\* Strict's set exactly when Strict is set
WarningsAsChosen(list) ==
    /\ opts.Sloppy =>
          /\ HasAll(list, SloppyFlags)
          /\ ~HasAny(list, DefaultWarnings)
          /\ ~HasAny(list, StrictWarnings)
    /\ ~opts.Sloppy =>
          /\ HasAll(list, DefaultWarnings)
          /\ opts.Strict => HasAll(list, StrictWarnings)
          /\ ~opts.Strict => ~HasAny(list, StrictWarnings)

\* C15 as stated, of the compile flags
C15_SloppyReplacesWarnings == asm.done => WarningsAsChosen(asm.CFlags)

\* C15: the statement holds of the flags the assembler puts in place before
\* it resolves the external includes and appends the tokens of CXXFLAGS;
\* the flags it requires present are in the final compile flags too.
C15_SloppyReplacesOwnWarnings ==
    asm.done =>
        /\ WarningsAsChosen(asm.own.c)
        /\ \A flag \in SloppyFlags \cup DefaultWarnings \cup StrictWarnings :
               Has(asm.own.c, flag) => Has(asm.CFlags, flag)

\* Sloppy together with Strict
C15_Witness ==
    /\ asm.done
    /\ opts.Sloppy /\ opts.Strict
    /\ Has(asm.own.c, "-w")

HardeningSet == {"-fno-plt", "-fstack-protector-strong"}

Hardened ==
    /\ env.goos = "linux"
    /\ ~opts.Win64 /\ ~win64
    /\ ~opts.Sloppy /\ ~opts.Zap /\ ~opts.Small /\ ~opts.Debug

\* C16 as stated: the hardening flags are in the compile flags if and only
\* if the host is Linux, the target is not win64 and none of Sloppy, Zap,
\* Small and Debug is set.
C16_HardeningIffLinuxPlain ==
    asm.done =>
        /\ Hardened => HasAll(asm.CFlags, HardeningSet)
        /\ ~Hardened => ~HasAny(asm.CFlags, HardeningSet)

\* C16: the statement holds of the flags the assembler puts in place before
\* it resolves the external includes and appends the tokens of CXXFLAGS.
C16_OwnHardeningIffLinuxPlain ==
    asm.done =>
        /\ Hardened => HasAll(asm.own.c, HardeningSet) /\ HasAll(asm.CFlags, HardeningSet)
        /\ ~Hardened => ~HasAny(asm.own.c, HardeningSet)

\* a hardened build, and win64 detected from the sources on Linux
C16_Witness ==
    /\ asm.done
    /\ env.goos = "linux"
    /\ \/ Hardened /\ opts.Strict /\ opts.Opt
       \/ win64 /\ ~opts.Win64 /\ ~opts.Sloppy /\ ~opts.Zap /\ ~opts.Small
          /\ ~opts.Debug /\ ~HasAny(asm.own.c, HardeningSet)

IsSuffix(suffix, list) ==
    /\ Len(suffix) <= Len(list)
    /\ SubSeq(list, Len(list) - Len(suffix) + 1, Len(list)) = suffix

\* C17: for a C++ project the tokens of CXXFLAGS, and for a C project those
\* of CFLAGS, are the final suffix of the compile flags, in their order; the
\* tokens of LDFLAGS are the final suffix of the link flags.
C17_OverridesAreLastByLanguage ==
    asm.done =>
        /\ IsSuffix(FlagFields(env.environ[IF feat.IsC THEN "CFLAGS"
                                           ELSE "CXXFLAGS"]),
                    asm.CFlags)
        /\ IsSuffix(FlagFields(env.environ["LDFLAGS"]), asm.LDFlags)

\* ------------------------------------------------------------------------
\* Main-source detection (getTestSources, GetMainSourceFile, containsMain)
\* and the build of a directory without a main source (doBuild, Build)
\*
\* A file is its directory, its name without the extension and the
\* extension; srcDir gives the text of each file that exists.
\* ------------------------------------------------------------------------
SourceExts == <<".cpp", ".cc", ".cxx", ".c">>

localCommonPaths == <<"common", "Common", "../common", "../Common">>

File(dir, stem, ext) == [dir |-> dir, stem |-> stem, ext |-> ext]

\* the file names of the model, in the order filepath.Glob lists them
GlobOrder == <<"app", "foo_test", "lib", "main", "test">>

RECURSIVE Flatten(_)
Flatten(lists) ==
    IF Len(lists) = 0 THEN <<>> ELSE Head(lists) \o Flatten(Tail(lists))

\* filepath.Glob(filepath.Join(dir, "*" + ext))
Glob(d, dir, ext) ==
    SelectSeq([k \in 1..Len(GlobOrder) |-> File(dir, GlobOrder[k], ext)],
              LAMBDA m : m \in DOMAIN d)

\* isTestFile: the name is *_test or test
IsTestFile(path) ==
    HasSuffix(Spell[path.stem], Spell["_test"]) \/ path.stem = "test"

\* getTestSources, one directory: the *_test files by extension, then the
\* first test.* that exists
TestSourcesIn(d, dir) ==
    Flatten([k \in 1..Len(SourceExts) |->
                SelectSeq(Glob(d, dir, SourceExts[k]),
                          LAMBDA m : HasSuffix(Spell[m.stem], Spell["_test"]))])
    \o (IF \E k \in 1..Len(SourceExts) : File(dir, "test", SourceExts[k]) \in DOMAIN d
        THEN <<File(dir, "test",
                    SourceExts[CHOOSE k \in 1..Len(SourceExts) :
                        /\ File(dir, "test", SourceExts[k]) \in DOMAIN d
                        /\ \A j \in 1..(k - 1) :
                               File(dir, "test", SourceExts[j]) \notin DOMAIN d])>>
        ELSE <<>>)

\* getTestSources: the project directory, then the common directories
GetTestSources(d) ==
    Flatten([k \in 1..(1 + Len(localCommonPaths)) |->
                TestSourcesIn(d, (<<".">> \o localCommonPaths)[k])])

\* strings.SplitSeq(string(data), "\n")
RECURSIVE TextLines(_)
TextLines(data) ==
    IF \E k \in 1..Len(data) : data[k] = "\n"
    THEN LET k == CHOOSE i \in 1..Len(data) :
                      data[i] = "\n" /\ \A j \in 1..(i - 1) : data[j] # "\n"
         IN  <<SubSeq(data, 1, k - 1)>> \o TextLines(SubSeq(data, k + 1, Len(data)))
    ELSE <<data>>

\* strings.TrimSpace
RECURSIVE TrimLeft(_)
TrimLeft(s) ==
    IF Len(s) > 0 /\ IsFlagSpace(s[1]) THEN TrimLeft(Tail(s)) ELSE s

RECURSIVE TrimRight(_)
TrimRight(s) ==
    IF Len(s) > 0 /\ IsFlagSpace(s[Len(s)])
    THEN TrimRight(SubSeq(s, 1, Len(s) - 1)) ELSE s

TrimSpace(s) == TrimRight(TrimLeft(s))

\* containsMain, one line
LineHasMain(line) ==
    /\ ~HasPrefix(TrimSpace(line), Spell["//"])
    /\ \/ Contains(line, Spell[" main("]) \/ HasPrefix(TrimSpace(line), Spell["main("])
       \/ Contains(line, Spell[" SDL_main("])
       \/ HasPrefix(TrimSpace(line), Spell["SDL_main("])
       \/ Contains(line, Spell[" main ("]) \/ HasPrefix(TrimSpace(line), Spell["main ("])

\* containsMain; a file that cannot be read has no main
ContainsMain(d, filename) ==
    /\ filename \in DOMAIN d
    /\ \E k \in 1..Len(TextLines(d[filename])) : LineHasMain(TextLines(d[filename])[k])

\* "Check for explicit main.* files", in dir
ExplicitMain(d, dir) ==
    IF \E k \in 1..Len(SourceExts) : File(dir, "main", SourceExts[k]) \in DOMAIN d
    THEN File(dir, "main",
              SourceExts[CHOOSE k \in 1..Len(SourceExts) :
                  /\ File(dir, "main", SourceExts[k]) \in DOMAIN d
                  /\ \A j \in 1..(k - 1) :
                         File(dir, "main", SourceExts[j]) \notin DOMAIN d])
    ELSE NoSource

\* allSrcs: the sources of the project directory that are not tests
RootCandidates(d, testSrcs) ==
    Flatten([k \in 1..Len(SourceExts) |->
                SelectSeq(Glob(d, ".", SourceExts[k]),
                          LAMBDA m : ~InSeq(testSrcs, m) /\ ~IsTestFile(m))])

\* allSrcs of the fallback: the sources of src/ that are not tests
SrcCandidates(d) ==
    Flatten([k \in 1..Len(SourceExts) |->
                SelectSeq(Glob(d, "src", SourceExts[k]), LAMBDA m : ~IsTestFile(m))])

\* GetMainSourceFile that looks for a main only when there are several candidates
PickMainTrustSingle(d, allSrcs) ==
    IF Len(allSrcs) = 0 THEN NoSource
    ELSE IF Len(allSrcs) = 1 THEN allSrcs[1]
    ELSE IF \E k \in 1..Len(allSrcs) : ContainsMain(d, allSrcs[k])
    THEN allSrcs[CHOOSE k \in 1..Len(allSrcs) :
                     /\ ContainsMain(d, allSrcs[k])
                     /\ \A j \in 1..(k - 1) : ~ContainsMain(d, allSrcs[j])]
    ELSE NoSource

\* the end of GetMainSourceFile: one candidate, or the first with a main
PickMain(d, allSrcs) ==
    IF Len(allSrcs) = 0 THEN NoSource
    ELSE IF Len(allSrcs) = 1
    THEN IF ContainsMain(d, allSrcs[1]) THEN allSrcs[1] ELSE NoSource
    ELSE IF \E k \in 1..Len(allSrcs) : ContainsMain(d, allSrcs[k])
    THEN allSrcs[CHOOSE k \in 1..Len(allSrcs) :
                     /\ ContainsMain(d, allSrcs[k])
                     /\ \A j \in 1..(k - 1) : ~ContainsMain(d, allSrcs[j])]
    ELSE NoSource

GetMainSourceFile(d, testSrcs) ==
    IF ExplicitMain(d, ".") # NoSource THEN ExplicitMain(d, ".")
    ELSE IF Len(RootCandidates(d, testSrcs)) > 0
    THEN PickMain(d, RootCandidates(d, testSrcs))
    ELSE IF ExplicitMain(d, "src") # NoSource THEN ExplicitMain(d, "src")
    ELSE PickMain(d, SrcCandidates(d))

\* The texts of the source files: no main; a main; a main in a comment
\* line only; SDL_main; "main (" after a tab, below a call of domain(; a
\* main( in the comment that ends a line of code.
MainTexts ==
    {Spell["void foo() {}"],
     Spell["int main() {"],
     Spell["  // int main()\nint x;"],
     Spell["int SDL_main(int c) {"],
     Spell["x = domain(1);\n\tmain (void)"],
     Spell["f(); // main("]}

\* The files a project directory may hold
DirFiles ==
    {File(".", "app", ".cpp"), File(".", "lib", ".cpp"), File(".", "app", ".c"),
     File(".", "main", ".cxx"), File(".", "main", ".c"),
     File(".", "foo_test", ".cpp"), File(".", "test", ".c"),
     File("src", "main", ".cpp")}

\* the project directories: at most MaxFiles files, each with one of the texts
Directories ==
    UNION {[files -> MainTexts] :
              files \in {fs0 \in SUBSET DirFiles : Cardinality(fs0) <= MaxFiles}}

InitMain ==
    /\ srcDir \in Directories
    /\ detection = NoFound
    /\ nr = NoCall
    /\ BuildIdle
    /\ ScanIdle
    /\ FlagsIdle
    /\ MergeIdle
    /\ ToolIdle

\* doBuildWithDirOverrides that has nothing to build whenever the main is missing
DoBuildOutcomeLenient(main, tests) ==
    IF main = NoSource THEN "nothing to build" ELSE "compileSources"

\* the outcome of doBuildWithDirOverrides once the project is detected
DoBuildOutcome(main, tests) ==
    IF main = NoSource /\ Len(tests) = 0 THEN "error: no source files found"
    ELSE IF main = NoSource THEN "nothing to build"
    ELSE "compileSources"

\* the outcome of Build once the project is detected
BuildOutcome(main, tests) ==
    IF main = NoSource THEN "error: no source files found"
    ELSE "compileSources"

\* GetMainSourceFile called on its own, with no test sources or with those
\* of getTestSources
CallGetMainSourceFile ==
    /\ detection.phase = "idle"
    /\ \E testSrcs \in {<<>>, GetTestSources(srcDir)} :
         detection' = [NoFound EXCEPT !.phase = "main", !.testSrcs = testSrcs,
                       !.MainSource = GetMainSourceFile(srcDir, testSrcs)]
    /\ UNCHANGED <<buildVars, nr, scanVars, flagVars, mergeVars, srcDir, toolVars>>

\* doBuild: detectProject, then doBuildWithDirOverrides up to the call of
\* assembleFlags and compileSources
DoBuild ==
    /\ detection.phase = "idle"
    /\ \E tests \in {GetTestSources(srcDir)} :
         \E main \in {GetMainSourceFile(srcDir, tests)} :
           detection' = [phase |-> "doBuild", testSrcs |-> tests, TestSources |-> tests,
                     MainSource |-> main, result |-> DoBuildOutcome(main, tests)]
    /\ UNCHANGED <<buildVars, nr, scanVars, flagVars, mergeVars, srcDir, toolVars>>

\* Build: detectProject, then the same up to assembleFlags and
\* compileSourcesCaptured
Build ==
    /\ detection.phase = "idle"
    /\ \E tests \in {GetTestSources(srcDir)} :
         \E main \in {GetMainSourceFile(srcDir, tests)} :
           detection' = [phase |-> "Build", testSrcs |-> tests, TestSources |-> tests,
                     MainSource |-> main, result |-> BuildOutcome(main, tests)]
    /\ UNCHANGED <<buildVars, nr, scanVars, flagVars, mergeVars, srcDir, toolVars>>

NextMain == CallGetMainSourceFile \/ DoBuild \/ Build

SpecMain == InitMain /\ [][NextMain]_vars

\* a build entry has run and found no main source
NoMainFound ==
    /\ detection.phase \in {"doBuild", "Build"}
    /\ detection.MainSource = NoSource

\* C18: when detection finds no main source and test sources exist, the
\* build succeeds without a compiler or linker run ("nothing to build");
\* when there are no test sources either it fails with an error.
C18_NoMainSourceOutcome ==
    NoMainFound =>
        IF Len(detection.TestSources) > 0
        THEN detection.result = "nothing to build"
        ELSE detection.result = "error: no source files found"

\* the directory holds sources only, none of them a test file, named main
\* or with a main token
OnlySourcesWithoutMain ==
    /\ DOMAIN srcDir # {}
    /\ \A f \in DOMAIN srcDir :
           ~IsTestFile(f) /\ f.stem # "main" /\ ~ContainsMain(srcDir, f)

OnlySpaceBefore(line, k) == \A j \in 1..(k - 1) : IsFlagSpace(line[j])

\* the line is a // comment line
IsCommentLine(line) ==
    \E k \in 1..(Len(line) - 1) :
        line[k] = "/" /\ line[k + 1] = "/" /\ OnlySpaceBefore(line, k)

\* main(, SDL_main( or main ( stands at position k, after a space or first
\* on the line
MainTokenAt(line, k) ==
    /\ \E token \in {"main(", "SDL_main(", "main ("} :
           /\ k + Len(Spell[token]) - 1 <= Len(line)
           /\ SubSeq(line, k, k + Len(Spell[token]) - 1) = Spell[token]
    /\ OnlySpaceBefore(line, k) \/ line[k - 1] = " "

\* the file holds a main token outside a // comment line
HasMainToken(f) ==
    \E n \in 1..Len(TextLines(srcDir[f])) :
        LET line == TextLines(srcDir[f])[n]
        IN  ~IsCommentLine(line) /\ \E k \in 1..Len(line) : MainTokenAt(line, k)

\* the position of an extension in SourceExts and of a name in glob order
ExtRank(f) == CHOOSE k \in 1..Len(SourceExts) : SourceExts[k] = f.ext
NameRank(f) == CHOOSE k \in 1..Len(GlobOrder) : GlobOrder[k] = f.stem

\* f comes before g in extension order, then glob order
ComesBefore(f, g) ==
    \/ ExtRank(f) < ExtRank(g)
    \/ ExtRank(f) = ExtRank(g) /\ NameRank(f) < NameRank(g)

\* the sources of the project root that are not test files
RootSources ==
    {f \in DOMAIN srcDir :
        f.dir = "." /\ ~IsTestFile(f) /\ ~InSeq(detection.testSrcs, f)}

C21_FallsBackToSrc ==
    /\ detection.phase = "main"
    /\ {f \in DOMAIN srcDir : f.dir = "." /\ f.stem = "main"} = {}
    /\ {f \in RootSources : HasMainToken(f)} = {}
    => LET explicit == {f \in DOMAIN srcDir : f.dir = "src" /\ f.stem = "main"}
           withMain == {f \in DOMAIN srcDir :
                           f.dir = "src" /\ ~IsTestFile(f) /\ HasMainToken(f)}
       IN  IF explicit # {}
           THEN /\ detection.MainSource \in explicit
                /\ \A g \in explicit : ExtRank(detection.MainSource) <= ExtRank(g)
           ELSE IF withMain # {}
           THEN /\ detection.MainSource \in withMain
                /\ \A g \in withMain \ {detection.MainSource} :
                       ComesBefore(detection.MainSource, g)
           ELSE detection.MainSource = NoSource

\* ------------------------------------------------------------------------
\* detectProject followed by assembleFlags: the feature fields that
\* scanSourceForFlags sets from the #include lines, the external includes,
\* and the flags assembled from both
\* ------------------------------------------------------------------------
\* the headers scanSourceForFlags takes for the use of threads
ThreadHeaders ==
    {"thread", "pthread.h", "mutex", "future", "condition_variable",
     "shared_mutex"}

\* A directive of the text in <...> form names one of the headers.  The
\* scan reads the lines as they are written, conditionals or not.
NamesHeader(texts, headers) ==
    \E f \in 1..Len(texts) : \E k \in 1..Len(texts[f]) :
        texts[f][k].form = "angle" /\ texts[f][k].hdr \in headers

\* scanSourceForFlags over all sources: the fields set from #include lines
ScanSourcesForFlags(texts) ==
    [NoFeatures EXCEPT !.HasThreads = NamesHeader(texts, ThreadHeaders),
                       !.HasDlopen = NamesHeader(texts, {"dlfcn.h"}),
                       !.HasMathLib = NamesHeader(texts, {"cmath", "math.h"}),
                       !.HasFS = NamesHeader(texts, {"filesystem"})]

\* The #include lines of the scanned projects: the thread-related headers,
\* dlfcn.h and SDL2/SDL.h, each inside or outside a false conditional
ProjectDirectives ==
    [hdr : {"thread", "mutex", "future", "condition_variable", "pthread.h",
            "dlfcn.h", "SDL2/SDL.h"},
     form : {"angle"}, live : BOOLEAN]

ProjectTexts == UNION {[1..n -> ProjectDirectives] : n \in 0..MaxDirectives}

InitProject ==
    /\ tree \in {t \in [1..Len(ScanFiles) -> ProjectTexts] :
                    Len(t[1]) + Len(t[2]) <= MaxDirectives}
    /\ localFiles = {}
    /\ win64 = FALSE
    /\ proj = NoProject
    /\ env \in OptionHosts
    /\ asm = NoAssembly
    /\ opts = NoOptions
    /\ feat = NoFeatures
    /\ nr = NoCall
    /\ BuildIdle
    /\ MergeIdle
    /\ MainIdle
    /\ ToolIdle

\* detectProject: the scan of every source for the feature fields, then
\* p.Includes = collectExternalIncludes(allSrcs, p.HasWin64)
DetectProject ==
    /\ ~proj.detected
    /\ \E cpp \in [1..Len(tree) -> BOOLEAN] :
         proj' = [detected |-> TRUE, cpp |-> cpp,
                  Includes |-> CollectExternalIncludes(tree, cpp, win64, localFiles)]
    /\ feat' = ScanSourcesForFlags(tree)
    /\ UNCHANGED <<buildVars, nr, tree, localFiles, win64, env, asm, opts,
                   mergeVars, mainVars, toolVars>>

NextProject == DetectProject \/ AssembleFlags

SpecProject == InitProject /\ [][NextProject]_vars

\* C22: for every project whose sources include <thread>, <mutex>,
\* <future>, <condition_variable> or <pthread.h>, the assembled link flags
\* contain -pthread, -lpthread and -ldl.
C22_ThreadHeadersLinkFlags ==
    /\ asm.done
    /\ \E f \in 1..Len(tree) : \E k \in 1..Len(tree[f]) :
           /\ tree[f][k].live
           /\ tree[f][k].hdr \in {"thread", "mutex", "future",
                                  "condition_variable", "pthread.h"}
    => HasAll(asm.LDFlags, {"-pthread", "-lpthread", "-ldl"})

\* ---------------------------------------------------------------------
\* recommendPackage: the install recommendation after a failed build
\* ---------------------------------------------------------------------

skipPackages == {Spell["glibc"], Spell["gcc"], Spell["wine"]}

\* detectPlatformType
PlatformTypes == {"arch", "deb", "brew", "generic"}

\* the headers a project may miss
MissingHeaders == {"SDL2/SDL.h", "foo.h"}

\* What the file-search tool prints for a header: the command failed, or
\* the lines of its output.
ToolOutputs ==
    {[err |-> TRUE, lines |-> <<>>],
     [err |-> FALSE, lines |-> <<>>],
     [err |-> FALSE, lines |-> <<Spell["extra/sdl2"]>>],
     [err |-> FALSE, lines |-> <<Spell["core/glibc"]>>],
     [err |-> FALSE, lines |-> <<Spell["core/glibc"], Spell["extra/sdl2"]>>],
     [err |-> FALSE, lines |-> <<Spell["gcc"]>>],
     [err |-> FALSE, lines |-> <<Spell["gcc"], Spell["wine"]>>],
     [err |-> FALSE, lines |-> <<Spell["libsdl2-dev"]>>]}

\* the text of an output: its lines, each ended by a newline
RECURSIVE OutputText(_)
OutputText(lines) ==
    IF Len(lines) = 0 THEN <<>>
    ELSE Head(lines) \o <<"\n">> \o OutputText(Tail(lines))

\* the package of one line of pkgfile: what follows the first "/"
PkgOfLine(line) ==
    IF IndexOf(line, "/") > 0
    THEN SubSeq(line, IndexOf(line, "/") + 1, Len(line))
    ELSE line

\* the case "arch" of recommendPackage: some line names a package to install
ArchRecommends(r, inc) ==
    /\ r.tool
    /\ ~r.out[inc].err
    /\ \E k \in 1..Len(TextLines(TrimSpace(OutputText(r.out[inc].lines)))) :
         LET pkg == PkgOfLine(TextLines(TrimSpace(OutputText(r.out[inc].lines)))[k])
         IN  pkg # <<>> /\ pkg \notin skipPackages

\* the case "deb" of recommendPackage: the whole output is the package
DebRecommends(r, inc) ==
    /\ r.tool
    /\ ~r.out[inc].err
    /\ TrimSpace(OutputText(r.out[inc].lines)) # <<>>
    /\ TrimSpace(OutputText(r.out[inc].lines)) \notin skipPackages

\* recommendPackage that asks the tool also for a header of the system
FoundInSystemNever(r, inc) == FALSE

\* "for _, sysDir := range systemIncludeDirs()": inc is under one of them
FoundInSystem(r, inc) == inc \in r.sys

\* the body of the loop of recommendPackage for one header: os.Exit(1) is called
ExitsFor(r, inc) ==
    /\ ~FoundInSystem(r, inc)
    /\ \/ r.platform = "arch" /\ ArchRecommends(r, inc)
       \/ r.platform = "deb" /\ DebRecommends(r, inc)

\* recommendPackage: the header the process exits for, "" when it returns
RECURSIVE RecommendPackage(_, _)
RecommendPackage(r, missingIncludes) ==
    IF Len(missingIncludes) = 0 THEN ""
    ELSE IF ExitsFor(r, Head(missingIncludes)) THEN Head(missingIncludes)
    ELSE RecommendPackage(r, Tail(missingIncludes))

\* the include lists of a detected project: no header twice
MissingLists ==
    {l \in UNION {[1..n -> MissingHeaders] : n \in 0..MaxIncludes} :
        \A i, j \in 1..Len(l) : i # j => l[i] # l[j]}

InitRecommend ==
    /\ proj \in {[detected |-> TRUE, cpp |-> <<>>, Includes |-> l] : l \in MissingLists}
    /\ rec \in {[NoRecommend EXCEPT !.platform = p, !.tool = t, !.sys = s, !.out = o] :
                  p \in PlatformTypes, t \in BOOLEAN, s \in SUBSET MissingHeaders,
                  o \in [MissingHeaders -> ToolOutputs]}
    /\ tree = <<>>
    /\ localFiles = {}
    /\ win64 = FALSE
    /\ nr = NoCall
    /\ BuildIdle
    /\ FlagsIdle
    /\ MergeIdle
    /\ MainIdle
    /\ prev = NoAssembly
    /\ cmd = NoCommand
    /\ local = <<>>
    /\ res = NoResolve
    /\ pcf = NoLookups
    /\ runs = <<>>

\* The end of doBuildWithDirOverrides and of Build: compileSources returns,
\* and on an error recommendPackage(proj.Includes) runs.
CompileAndRecommend ==
    /\ ~rec.done
    /\ \E failed \in BOOLEAN :
         rec' = [rec EXCEPT !.done = TRUE, !.failed = failed,
                     !.exit = IF failed THEN RecommendPackage(rec, proj.Includes)
                              ELSE ""]
    /\ UNCHANGED <<buildVars, nr, scanVars, flagVars, mergeVars, mainVars, prev, cmd, local, res, pcf, runs>>

NextRecommend == CompileAndRecommend

SpecRecommend == InitRecommend /\ [][NextRecommend]_vars

C24_OnlySurvivingIncludes ==
    /\ proj.detected
    /\ \A f \in 1..Len(tree) : proj.cpp[f]
    => \A k \in 1..Len(proj.Includes) :
           \E f \in 1..Len(tree) : \E j \in 1..Len(tree[f]) :
               /\ tree[f][j].hdr = proj.Includes[k]
               /\ tree[f][j].live

\* ---------------------------------------------------------------------
\* assembleFlags run twice, and the install-prefix override of the defines
\* ---------------------------------------------------------------------

\* BuildOptions.InstallPrefix: not set, or the share directory of the program
InstallPrefixes == {"", "/usr/share/prog"}

\* one define of installDirDefines; filepath.Join(prefix, dir) of a prefix
\* that does not end in a slash
InstallDirDefine(prefix, dir) ==
    Spell["-D"] \o Spell[DirTypes[dir]] \o <<"=", "\"">>
        \o Spell[prefix] \o Spell["/"] \o Spell[dir] \o Spell["/"] \o <<"\"">>

\* installDirDefines ranges over a Go map: the defines come in any order
InstallDirDefines(prefix, e) ==
    LET dirs == {dir \in DOMAIN DirTypes :
                    \/ FileExistsAt(Spell[dir], e)
                    \/ FileExistsAt(Spell["../"] \o Spell[dir], e)}
    IN  {[k \in 1..Cardinality(dirs) |-> InstallDirDefine(prefix, order[k])] :
            order \in {s \in [1..Cardinality(dirs) -> dirs] :
                          \A i, j \in 1..Cardinality(dirs) : i # j => s[i] # s[j]}}

\* the options the two runs are made with
RunOptions ==
    {NoOptions,
     [NoOptions EXCEPT !.Debug = TRUE],
     [NoOptions EXCEPT !.Opt = TRUE, !.Strict = TRUE],
     [NoOptions EXCEPT !.Clang = TRUE, !.Sloppy = TRUE]}

InitDefines ==
    /\ opts \in RunOptions
    /\ feat \in ProjectKinds
    /\ win64 = FALSE
    /\ \E host \in OptionHosts, environ \in UserEnvironments :
         /\ env = [host EXCEPT !.environ = environ]
         /\ proj = [detected |-> TRUE, cpp |-> <<>>,
                    Includes |-> IF host.hasPkg THEN <<"SDL2/SDL.h">> ELSE <<>>]
    /\ asm = NoAssembly
    /\ MergeIdle
    /\ MainIdle
    /\ ToolIdle
    /\ tree = <<>>
    /\ localFiles = {}
    /\ nr = NoCall
    /\ BuildIdle

\* A second run of the program on the same project, options, environment
\* and file system: the flags of the first run are kept for the comparison
\* and assembleFlags starts afresh.
StartSecondRun ==
    /\ asm.done
    /\ ~prev.done
    /\ ~cmd.done
    /\ prev' = asm
    /\ asm' = NoAssembly
    /\ UNCHANGED <<buildVars, nr, scanVars, env, opts, feat, mergeVars, mainVars,
                   rec, cmd, local, res, pcf, runs>>

\* "flags.Defines = installDirDefines(opts.InstallPrefix)"
Override(defines, installed, f, e) == installed

\* doBuildWithDirOverrides between assembleFlags and compileSources:
\* "Override directory defines with install paths if InstallPrefix is set"
OverrideDefines ==
    /\ asm.done
    /\ ~cmd.done
    /\ \E prefix \in InstallPrefixes :
         \E installed \in InstallDirDefines(prefix, env) :
           cmd' = [done |-> TRUE, InstallPrefix |-> prefix,
                   Defines |-> IF prefix # ""
                               THEN Override(asm.Defines, installed, feat, env)
                               ELSE asm.Defines]
    /\ UNCHANGED <<buildVars, nr, scanVars, flagVars, mergeVars, mainVars, rec, prev,
                   local, res, pcf, runs>>

NextDefines == AssembleFlags \/ StartSecondRun \/ OverrideDefines

SpecDefines == InitDefines /\ [][NextDefines]_vars

\* C25: two runs of assembleFlags on the same project, options, environment
\* and file system give the same BuildFlags, the order of the compile flags,
\* link flags, defines and include paths included.
C25_AssemblyIsDeterministic ==
    prev.done /\ asm.done
    => /\ asm.Compiler = prev.Compiler
       /\ asm.Std = prev.Std
       /\ asm.CFlags = prev.CFlags
       /\ asm.LDFlags = prev.LDFlags
       /\ asm.Defines = prev.Defines
       /\ asm.IncPaths = prev.IncPaths

\* the names of the directory defines: -DNAME= of a logical directory
IsDirDefine(define) ==
    \E dir \in DOMAIN DirTypes :
        HasPrefix(define, Spell["-D"] \o Spell[DirTypes[dir]] \o <<"=">>)

\* C26: with an install prefix, every directory define of a present logical
\* directory is replaced by the define of the same name that points under
\* the prefix, and every define that is not a directory define is still in
\* the list handed to the compiler.
C26_OverrideTouchesDirDefinesOnly ==
    cmd.done /\ cmd.InstallPrefix # ""
    => /\ \A dir \in DOMAIN DirTypes :
              (\/ FileExistsAt(Spell[dir], env)
               \/ FileExistsAt(Spell["../"] \o Spell[dir], env))
              => /\ InSeq(cmd.Defines, InstallDirDefine(cmd.InstallPrefix, dir))
                 /\ ~InSeq(cmd.Defines, DirDefine(dir, env))
       /\ \A k \in 1..Len(asm.Defines) :
              ~IsDirDefine(asm.Defines[k]) => InSeq(cmd.Defines, asm.Defines[k])

\* ---------------------------------------------------------------------
\* resolveCommonDeps and collectLocalIncludes, on Linux (the keys of toSet
\* and of existingDeps are the paths themselves).  A file is a record
\* [dir, stem, ext]; a quoted include is a record [stem, ext], so that
\* strings.TrimSuffix(inc, filepath.Ext(inc)) is its stem.
\* ---------------------------------------------------------------------

Quoted(stem, ext) == [stem |-> stem, ext |-> ext]

\* the names the #include "..." lines of the project use
QuotedIncludes == {Quoted("test", ".h"), Quoted("sub/x", ".h")}

\* the #include "..." lines of one file: no name twice
QuotedLists ==
    {l \in UNION {[1..n -> QuotedIncludes] : n \in 0..MaxDirectives} :
        \A i, j \in 1..Len(l) : i # j => l[i] # l[j]}

\* The files a project may hold: a main source, a library source, a header
\* beside them, a header and two sources under common/.  common/test.cpp
\* and common/sub/x.cpp are not listed by getDepSources: the first is a
\* test file, the second is in a subdirectory.
ProjectFiles ==
    {File(".", "main", ".cpp"), File(".", "lib", ".cpp"), File(".", "test", ".h"),
     File("common", "sub/x", ".h"), File("common", "test", ".cpp"),
     File("common", "sub/x", ".cpp")}

SourceTrees == UNION {[S -> QuotedLists] : S \in SUBSET ProjectFiles}

\* strings.ToLower(sf)
LowerPath(sf) ==
    <<ToLower(Spell[sf.dir]), ToLower(Spell[sf.stem]), ToLower(Spell[sf.ext])>>

\* "for _, lp := range localIncludePaths": the first headerPath that exists
HeaderPath(t, inc) ==
    IF \E k \in 1..Len(LocalIncludePaths) :
           File(LocalIncludePaths[k], inc.stem, inc.ext) \in DOMAIN t
    THEN <<File(LocalIncludePaths[CHOOSE k \in 1..Len(LocalIncludePaths) :
                    /\ File(LocalIncludePaths[k], inc.stem, inc.ext) \in DOMAIN t
                    /\ \A j \in 1..(k - 1) :
                           File(LocalIncludePaths[j], inc.stem, inc.ext) \notin DOMAIN t],
                inc.stem, inc.ext)>>
    ELSE <<>>

\* collectLocalIncludes, the scanner loop over the lines of one file
RECURSIVE ScanQuoted(_, _, _)
ScanQuoted(t, lines, st) ==
    IF Len(lines) = 0 THEN st
    ELSE IF Head(lines) \in st.seen THEN ScanQuoted(t, Tail(lines), st)
    ELSE ScanQuoted(t, Tail(lines),
                    [st EXCEPT !.seen = @ \cup {Head(lines)},
                               !.result = Append(@, Head(lines)),
                               !.queue = @ \o HeaderPath(t, Head(lines))])

\* collectLocalIncludes, "for len(queue) > 0"
RECURSIVE CollectQueue(_, _)
CollectQueue(t, st) ==
    IF Len(st.queue) = 0 THEN st.result
    ELSE IF Head(st.queue) = NoSource \/ LowerPath(Head(st.queue)) \in st.examined
    THEN CollectQueue(t, [st EXCEPT !.queue = Tail(@)])
    ELSE IF Head(st.queue) \notin DOMAIN t
    THEN CollectQueue(t, [st EXCEPT !.queue = Tail(@),
                                    !.examined = @ \cup {LowerPath(Head(st.queue))}])
    ELSE CollectQueue(t, ScanQuoted(t, t[Head(st.queue)],
                             [st EXCEPT !.queue = Tail(@),
                                        !.examined = @ \cup {LowerPath(Head(st.queue))}]))

\* collectLocalIncludes
CollectLocalIncludes(t, files) ==
    CollectQueue(t, [queue |-> files, examined |-> {}, seen |-> {}, result |-> <<>>])

\* getDepSources: the sources of the project directory that are neither
\* the main source nor tests, then those of the common directories
GetDepSources(t, mainSrc, testSrcs) ==
    Flatten([k \in 1..Len(SourceExts) |->
                SelectSeq(Glob(t, ".", SourceExts[k]),
                          LAMBDA m : /\ m # mainSrc
                                     /\ ~InSeq(testSrcs, m)
                                     /\ ~IsTestFile(m))])
    \o Flatten([c \in 1..Len(localCommonPaths) |->
                   Flatten([k \in 1..Len(SourceExts) |->
                               SelectSeq(Glob(t, localCommonPaths[c], SourceExts[k]),
                                         LAMBDA m : ~IsTestFile(m))])])

\* the candidates of resolveCommonDeps for the includes, in the order of its
\* three loops: filepath.Join(cp, base+ext)
CommonCandidates(incs) ==
    Flatten([i \in 1..Len(incs) |->
        Flatten([c \in 1..Len(localCommonPaths) |->
            [k \in 1..Len(SourceExts) |->
                File(localCommonPaths[c], incs[i].stem, SourceExts[k])]])])

\* the body of the three loops: a candidate that exists and is not in
\* existingDeps is appended to p.DepSources
RECURSIVE AppendNew(_, _, _)
AppendNew(t, deps, candidates) ==
    IF Len(candidates) = 0 THEN deps
    ELSE IF Head(candidates) \in DOMAIN t /\ ~InSeq(deps, Head(candidates))
    THEN AppendNew(t, Append(deps, Head(candidates)), Tail(candidates))
    ELSE AppendNew(t, deps, Tail(candidates))

\* one pass of the "for" loop of resolveCommonDeps: p.DepSources after it
ResolvePass(t, main, deps) ==
    AppendNew(t, deps, CommonCandidates(CollectLocalIncludes(t, <<main>> \o deps)))

InitCommon ==
    /\ local \in SourceTrees
    /\ res = NoResolve
    /\ rec = NoRecommend
    /\ prev = NoAssembly
    /\ cmd = NoCommand
    /\ pcf = NoLookups
    /\ runs = <<>>
    /\ nr = NoCall
    /\ BuildIdle
    /\ ScanIdle
    /\ FlagsIdle
    /\ MergeIdle
    /\ MainIdle

\* detectProject up to the entry of resolveCommonDeps, which returns at once
\* when there is no main source.  main.cpp is the main source when it
\* exists; lib.cpp has no main function.
GetSources ==
    /\ res.pc = "start"
    /\ \E main \in {IF File(".", "main", ".cpp") \in DOMAIN local
                    THEN File(".", "main", ".cpp") ELSE NoSource} :
         res' = [pc |-> IF main = NoSource THEN "done" ELSE "loop",
                 MainSource |-> main,
                 DepSources |-> GetDepSources(local, main, GetTestSources(local)),
                 rounds |-> 0]
    /\ UNCHANGED <<buildVars, nr, scanVars, flagVars, mergeVars, mainVars,
                   rec, prev, cmd, local, pcf, runs>>

\* one pass of the "for" loop of resolveCommonDeps; "if !foundNew { break }"
ResolveRound ==
    /\ res.pc = "loop"
    /\ \E deps \in {ResolvePass(local, res.MainSource, res.DepSources)} :
         res' = [res EXCEPT !.DepSources = deps,
                            !.rounds = @ + 1,
                            !.pc = IF deps = res.DepSources THEN "done" ELSE "loop"]
    /\ UNCHANGED <<buildVars, nr, scanVars, flagVars, mergeVars, mainVars,
                   rec, prev, cmd, local, pcf, runs>>

NextCommon == GetSources \/ ResolveRound

SpecCommon == InitCommon /\ [][NextCommon]_vars

\* The files the scan reaches from a set of files: the first existing header
\* of every quoted include of a reached file is reached.
RECURSIVE ReachedFiles(_, _)
ReachedFiles(t, S) ==
    LET more == S \cup {HeaderPath(t, t[f][k])[1] :
                           <<f, k>> \in {<<f, k>> \in (S \cap DOMAIN t) \X (1..MaxDirectives) :
                                            /\ k <= Len(t[f])
                                            /\ HeaderPath(t, t[f][k]) # <<>>}}
    IN  IF more = S THEN S ELSE ReachedFiles(t, more)

\* the quoted includes of the reached files
ReachedIncludes(t, S) ==
    {t[f][k] : <<f, k>> \in {<<f, k>> \in (ReachedFiles(t, S) \cap DOMAIN t)
                                             \X (1..MaxDirectives) : k <= Len(t[f])}}

\* C27: when resolveCommonDeps has stopped, DepSources holds every existing
\* source under a common path whose stem is that of a quoted include reached
\* from the main source or a dependency source through the local headers,
\* and holds no path twice.
C27_DepSourcesIsFixedPoint ==
    res.pc = "done"
    => /\ \A i, j \in 1..Len(res.DepSources) :
              i # j => res.DepSources[i] # res.DepSources[j]
       /\ \A inc \in ReachedIncludes(local, ({res.MainSource} \ {NoSource})
                                              \cup {res.DepSources[k] :
                                                      k \in 1..Len(res.DepSources)}) :
              \A c \in 1..Len(localCommonPaths), k \in 1..Len(SourceExts) :
                  File(localCommonPaths[c], inc.stem, SourceExts[k]) \in DOMAIN local
                  => InSeq(res.DepSources,
                           File(localCommonPaths[c], inc.stem, SourceExts[k]))

\* ---------------------------------------------------------------------
\* lookupPCFiles and its cache
\* ---------------------------------------------------------------------

MaxLookups == 3

\* the packages that own the headers of the project
OwnerPackages == {"sdl2", "glfw"}

\* What the file-listing query of the package manager gives: the command
\* failed, or the lines that end in .pc.
QueryOutputs ==
    {[err |-> TRUE, lines |-> <<>>],
     [err |-> FALSE, lines |-> <<"">>],
     [err |-> FALSE, lines |-> <<"/usr/lib/pkgconfig/sdl2.pc">>],
     [err |-> FALSE, lines |-> <<"/usr/lib/pkgconfig/glfw3.pc", "",
                                 "/usr/lib/pkgconfig/glfw3-static.pc">>]}

\* the .pc files of an output: "if line != """
PcFilesFrom(out) ==
    IF out.err THEN <<>> ELSE SelectSeq(out.lines, LAMBDA line : line # "")

\* the cache that takes an empty record for no record
IsCachedNonEmpty(cache, pkg) == pkg \in DOMAIN cache /\ cache[pkg] # <<>>

\* "if cached, ok := cachedPCFiles[pkg]; ok"
IsCached(cache, pkg) == pkg \in DOMAIN cache

\* the platforms lookupPCFiles has a command for
HasListCommand(platform) ==
    platform \in {"arch", "deb", "freebsd", "openbsd", "brew"}

InitLookup ==
    /\ pcf \in {[NoLookups EXCEPT !.platform = p] : p \in PlatformTypes}
    /\ rec = NoRecommend
    /\ prev = NoAssembly
    /\ cmd = NoCommand
    /\ local = <<>>
    /\ res = NoResolve
    /\ runs = <<>>
    /\ nr = NoCall
    /\ BuildIdle
    /\ ScanIdle
    /\ FlagsIdle
    /\ MergeIdle
    /\ MainIdle

\* lookupPCFiles(platform, pkg): the recorded list, nil without a query on a
\* platform without a command, or the query and the record of its result
LookupPCFiles ==
    /\ Len(pcf.lookups) < MaxLookups
    /\ \E pkg \in OwnerPackages :
         IF IsCached(pcf.cachedPCFiles, pkg)
         THEN pcf' = [pcf EXCEPT !.lookups =
                          Append(@, [pkg |-> pkg, hit |-> TRUE,
                                     returned |-> pcf.cachedPCFiles[pkg]])]
         ELSE IF ~HasListCommand(pcf.platform)
         THEN pcf' = [pcf EXCEPT !.lookups =
                          Append(@, [pkg |-> pkg, hit |-> FALSE, returned |-> <<>>])]
         ELSE \E out \in QueryOutputs :
                pcf' = [pcf EXCEPT
                          !.queries = Append(@, [pkg |-> pkg, out |-> out]),
                          !.cachedPCFiles = (pkg :> PcFilesFrom(out)) @@ @,
                          !.lookups = Append(@, [pkg |-> pkg, hit |-> FALSE,
                                                 returned |-> PcFilesFrom(out)])]
    /\ UNCHANGED <<buildVars, nr, scanVars, flagVars, mergeVars, mainVars,
                   rec, prev, cmd, local, res, runs>>

NextLookup == LookupPCFiles

SpecLookup == InitLookup /\ [][NextLookup]_vars

\* C28: the file-listing query is issued at most once per package; every
\* lookup of a package returns the .pc list of that one query, also when the
\* query failed or listed no .pc file; and the record of a package is, for
\* the rest of the run, the list of its one query.
C28_OneQueryPerPackage ==
    /\ \A i, j \in 1..Len(pcf.queries) :
           i # j => pcf.queries[i].pkg # pcf.queries[j].pkg
    /\ \A i \in 1..Len(pcf.queries) :
           /\ pcf.queries[i].pkg \in DOMAIN pcf.cachedPCFiles
           /\ pcf.cachedPCFiles[pcf.queries[i].pkg] = PcFilesFrom(pcf.queries[i].out)
           /\ \A k \in 1..Len(pcf.lookups) :
                  pcf.lookups[k].pkg = pcf.queries[i].pkg
                  => pcf.lookups[k].returned = PcFilesFrom(pcf.queries[i].out)
    /\ \A k \in 1..Len(pcf.lookups) :
           pcf.lookups[k].hit =>
               \E j \in 1..(k - 1) : /\ pcf.lookups[j].pkg = pcf.lookups[k].pkg
                                     /\ ~pcf.lookups[j].hit

\* a package whose query failed is looked up again and answered from the record
C28_Witness ==
    /\ Len(pcf.lookups) = 3
    /\ pcf.lookups[1].pkg = "sdl2"
    /\ pcf.lookups[3].pkg = "sdl2"
    /\ pcf.lookups[3].hit
    /\ pcf.lookups[3].returned = <<>>
    /\ Len(pcf.queries) = 2
    /\ pcf.queries[1].out.err

\* ---------------------------------------------------------------------
\* The commands build, testbuild and rec, each a whole run of the program
\* on the files of one project: main.cpp, the dependency source a.cpp and
\* the test source foo_test.cpp.  compileSources is the function of the
\* file system that the steps of the build run above go through.
\* ---------------------------------------------------------------------

ExeWin == <<"prog", ".exe">>
TestSrc == <<"foo_test", ".cpp">>
TestExe == <<"foo_test", "">>

ProjectSrcs == {SrcPath(1), SrcPath(2), TestSrc}
RunFiles ==
    ProjectSrcs \cup {ObjPath(s) : s \in ProjectSrcs} \cup {Exe, ExeWin, TestExe}

\* the option sets of the command line
CommandOptions ==
    {NoOptions,
     [NoOptions EXCEPT !.Debug = TRUE],
     [NoOptions EXCEPT !.Win64 = TRUE]}

\* the options of the two builds of doRec
RecGenerate == [NoOptions EXCEPT !.Opt = TRUE, !.ProfileGenerate = TRUE]
RecUse == [NoOptions EXCEPT !.Opt = TRUE, !.ProfileUse = TRUE]

\* the BuildFlags of an option set, as far as the commands show them
FlagsOf(o) == IF o.Debug THEN FlagsDebug ELSE FlagsRelease

\* doBuildWithDirOverrides: "exe := executableName()", with ".exe" under
\* Win64; no source of the project includes windows.h
ExecutableOf(o) == IF o.Win64 THEN ExeWin ELSE Exe

\* "no" when no tool fails; a tool that fails removes its output file.  Of
\* the commands of a run, the first is the one that fails.
Failures == {"no", "remove"}

Fails(st, fail) == fail # "no" /\ Len(st.commands) = 0

Failed(st, fail, path, cmdRun, error) ==
    [st EXCEPT !.commands = Append(@, cmdRun),
               !.err = error,
               !.fs = IF fail = "remove" THEN [st.fs EXCEPT ![path] = 0] ELSE st.fs]

\* the planner that recompiles every source in every run
StaleAlways(src, obj, st) == TRUE

\* "if !needsRecompile(src, obj) { continue }"
Stale(src, obj, st) == NeedsRecompile(src, obj, st.fs, st.dfiles)

\* compileSources, "for _, src := range srcs", from source i on
RECURSIVE CompileLoop(_, _, _, _, _, _)
CompileLoop(list, i, f, st, time, fail) ==
    IF i > Len(list) THEN st
    ELSE IF ~Stale(list[i], ObjPath(list[i]), st)
    THEN CompileLoop(list, i + 1, f, [st EXCEPT !.objFiles = Append(@, ObjPath(list[i]))],
                     time, fail)
    ELSE IF Fails(st, fail)
    THEN Failed([st EXCEPT !.needLink = TRUE,
                           !.objFiles = Append(@, ObjPath(list[i]))],
                fail, ObjPath(list[i]),
                Command(f, "compile", ObjectCompileArgs(f, list[i], ObjPath(list[i]))),
                "compiling")
    ELSE CompileLoop(list, i + 1, f,
             [st EXCEPT !.needLink = TRUE,
                        !.objFiles = Append(@, ObjPath(list[i])),
                        !.commands = Append(@, Command(f, "compile",
                            ObjectCompileArgs(f, list[i], ObjPath(list[i])))),
                        !.fs = [st.fs EXCEPT ![ObjPath(list[i])] = time],
                        !.dfiles = [st.dfiles EXCEPT ![DepPath(ObjPath(list[i]))] =
                            [exists |-> TRUE, data |-> DepText(list[i], FALSE)]]],
             time, fail)

\* compileSources after the loop: the link, or "up to date"
LinkOrUpToDate(output, f, st, time, fail) ==
    IF st.err # "" THEN st
    ELSE IF ~LinkNeeded(st.needLink, st.fs, output)
    THEN [st EXCEPT !.upToDate = TRUE]
    ELSE IF Fails(st, fail)
    THEN Failed(st, fail, output,
                Command(f, "link", LinkArgs(f, st.objFiles, output)), "linking failed")
    ELSE [st EXCEPT !.commands = Append(@, Command(f, "link",
                                         LinkArgs(f, st.objFiles, output))),
                    !.fs = [st.fs EXCEPT ![output] = time]]

\* compileSources with one source: the direct compile and link
CompileDirect(list, output, f, st, time, fail) ==
    IF Fails(st, fail)
    THEN Failed(st, fail, output,
                Command(f, "compile+link", BuildCompileArgs(f, list, output)),
                "compilation failed")
    ELSE [st EXCEPT !.commands = Append(@, Command(f, "compile+link",
                                         BuildCompileArgs(f, list, output))),
                    !.fs = [st.fs EXCEPT ![output] = time]]

\* the locals of one call of compileSources on the files it finds
CallOn(FS, DF, output) ==
    [fs |-> FS, dfiles |-> DF, output |-> output, commands |-> <<>>,
     needLink |-> FALSE, objFiles |-> <<>>, upToDate |-> FALSE, err |-> ""]

\* compileSources(srcs, output, flags): the files after it and what it did
CompileSources(list, output, f, FS, DF, time, fail) ==
    IF SingleSource(list)
    THEN CompileDirect(list, output, f, CallOn(FS, DF, output), time, fail)
    ELSE LinkOrUpToDate(output, f,
                        CompileLoop(list, 1, f, CallOn(FS, DF, output), time, fail),
                        time, fail)

\* no command has built the files as they are
NotBuilt == [exe |-> <<>>, opts |-> NoOptions]

NoCommandRun ==
    [cmd |-> "none", opts |-> NoOptions, err |-> "", before |-> NotBuilt,
     calls |-> <<>>]

\* os.Remove of each path of a list
RECURSIVE RemoveAll(_, _, _)
RemoveAll(F, paths, gone) ==
    IF Len(paths) = 0 THEN F
    ELSE RemoveAll([F EXCEPT ![Head(paths)] = gone], Tail(paths), gone)

\* doClean: the objects, the executables and the .d files go
CleanList ==
    <<ObjPath(SrcPath(1)), ObjPath(SrcPath(2)), ObjPath(TestSrc), Exe, ExeWin, TestExe>>
CleanDeps ==
    <<DepPath(ObjPath(SrcPath(1))), DepPath(ObjPath(SrcPath(2))),
      DepPath(ObjPath(TestSrc))>>

\* A project of one source or of two, with or without a test source, none
\* of it built yet.
InitRuns ==
    /\ \E n \in 1..2, withTest \in BOOLEAN :
         runs = [srcs |-> SrcList(n),
                 tests |-> IF withTest THEN <<TestSrc>> ELSE <<>>,
                 fs |-> [p \in RunFiles |->
                            IF \/ p \in {SrcPath(i) : i \in 1..n}
                               \/ (withTest /\ p = TestSrc)
                            THEN 1 ELSE 0],
                 dfiles |-> [p \in {DepPath(ObjPath(s)) : s \in ProjectSrcs} |-> NoDep],
                 now |-> 1,
                 built |-> NotBuilt,
                 last |-> NoCommandRun]
    /\ rec = NoRecommend
    /\ prev = NoAssembly
    /\ cmd = NoCommand
    /\ local = <<>>
    /\ res = NoResolve
    /\ pcf = NoLookups
    /\ nr = NoCall
    /\ BuildIdle
    /\ ScanIdle
    /\ FlagsIdle
    /\ MergeIdle
    /\ MainIdle

RunsUnchanged ==
    UNCHANGED <<buildVars, nr, scanVars, flagVars, mergeVars, mainVars,
                rec, prev, cmd, local, res, pcf>>

\* The state after a command: its files, and the history of what it did.
\* built is the executable the command made of the project, and its
\* options, when it succeeded; before is what the command found built.
AfterCommand(name, o, calls, clean, exe) ==
    [runs EXCEPT
       !.fs = calls[Len(calls)].fs,
       !.dfiles = calls[Len(calls)].dfiles,
       !.built = IF calls[Len(calls)].err = ""
                 THEN [exe |-> exe, opts |-> o] ELSE NotBuilt,
       !.last = [cmd |-> name, opts |-> o, err |-> calls[Len(calls)].err,
                 before |-> IF clean THEN NotBuilt ELSE runs.built,
                 calls |-> calls]]

\* doBuild(opts): one call of compileSources on the main source and the
\* dependency sources
RunBuild ==
    /\ \E o \in CommandOptions, fail \in Failures :
         runs' = AfterCommand("build", o,
                     <<CompileSources(runs.srcs, ExecutableOf(o), FlagsOf(o),
                                      runs.fs, runs.dfiles, runs.now, fail)>>,
                     FALSE, ExecutableOf(o))
    /\ RunsUnchanged

\* the second call of a command, made when the first returned no error
ThenCall(first, list, output, f, time) ==
    IF first.err # "" THEN <<first>>
    ELSE <<first, CompileSources(list, output, f, first.fs, first.dfiles, time, "no")>>

\* doRec: doClean, the profile-generate build, the run of the program (it
\* writes its profile and no file of the model), the profile-use build
RunRec ==
    /\ \E fail \in Failures :
         runs' = AfterCommand("rec", RecUse,
                     ThenCall(CompileSources(runs.srcs, Exe, FlagsOf(RecGenerate),
                                             RemoveAll(runs.fs, CleanList, 0),
                                             RemoveAll(runs.dfiles, CleanDeps, NoDep),
                                             runs.now, fail),
                              runs.srcs, Exe, FlagsOf(RecUse), runs.now),
                     TRUE, Exe)
    /\ RunsUnchanged

\* doTestBuild(opts): the main executable, then one executable for each
\* test source, linked with the dependency sources
RunTestBuild ==
    /\ runs.tests # <<>>
    /\ \E o \in CommandOptions, fail \in Failures :
         runs' = AfterCommand("testbuild", o,
                     ThenCall(CompileSources(runs.srcs, Exe, FlagsOf(o),
                                             runs.fs, runs.dfiles, runs.now, fail),
                              <<runs.tests[1]>> \o Tail(runs.srcs), TestExe,
                              FlagsOf(o), runs.now),
                     FALSE, Exe)
    /\ RunsUnchanged

\* the user saves a source of the project
SaveSource ==
    /\ \E s \in {p \in ProjectSrcs : runs.fs[p] # 0} :
         runs' = [runs EXCEPT !.fs = [runs.fs EXCEPT ![s] = runs.now],
                              !.built = NotBuilt,
                              !.last = NoCommandRun]
    /\ RunsUnchanged

\* time passes between two commands
ClockTick ==
    /\ runs.now < MaxTime
    /\ runs' = [runs EXCEPT !.now = @ + 1]
    /\ RunsUnchanged

NextRuns == RunBuild \/ RunRec \/ RunTestBuild \/ SaveSource \/ ClockTick

SpecRuns == InitRuns /\ [][NextRuns]_vars

\* the project has a main source and a dependency source
MultiSource == Len(runs.srcs) >= 2

\* the call of compileSources ran no tool and printed "up to date"
NothingToDo(call) == call.upToDate /\ call.commands = <<>> /\ call.err = ""

C30_ExecutablesNewerThanObjects ==
    (runs.last.cmd = "testbuild" /\ runs.last.err = "")
    => \A c \in 1..Len(runs.last.calls) :
           \A k \in 1..Len(runs.last.calls[c].objFiles) :
               runs.fs[runs.last.calls[c].output]
                   >= runs.fs[runs.last.calls[c].objFiles[k]]

====
